---- MODULE Spec2Model ----
(***************************************************************************)
(* Nutrient resolution and aggregation cache of AI-calories-backend:       *)
(* the nutrition routes (daily summary, log / update / delete of a food    *)
(* log, trends, weekly summary), the image upload route, the Redis cache   *)
(* helpers and the Redis rate limiter, as state machines over the          *)
(* relational store, the cache and the uploads directory.                  *)
(*                                                                         *)
(* Decimal quantities (DECIMAL(8,2) columns, amounts) are fixed-point      *)
(* integers in hundredths: 150 is 1.50.  Calendar dates are day numbers of *)
(* January 2024 (day 1 is Monday 2024-01-01).                              *)
(***************************************************************************)
EXTENDS Integers, Sequences, FiniteSets, TLC

\* ------------------------------------------------------------------ bounds
NumProcs == 2
NumDays == 2
MaxLogs == 2
MaxChecks == 4
TickUnit == 60
RLTick == 30
RLLimit == 2
TightLimit == 1
MaxTimed == 4
MaxAi == 4
RLWindow == 60

\* ------------------------------------------------------- program constants
\* cache.set(key, value, ttl = 3600): the time-to-live when none is passed.
DefaultTTL == 3600

\* Faulty variant of DailyTTL: the third argument of cache.set left out.
TTLOmitted == DefaultTTL

\* cache.set(cacheKey, response, 300) in GET /daily.
DailyTTL == 300

\* cache.set(cacheKey, response, 3600) in GET /weekly-summary.
WeeklyTTL == 3600

\* Quantities are kept in hundredths (DECIMAL(8,2)).
Scale == 100

\* rateLimit.check(rateLimitKey, 2, 86400): requests per day.
DaySeconds == 86400

Procs == 1..NumProcs
Days == 1..NumDays
LogIds == 1..MaxLogs
Users == {"u1", "u2"}
Fields == {"calories", "protein", "carbs", "fat", "fiber", "sugar", "sodium"}
MealTypes == {"breakfast", "lunch", "dinner", "snack"}

VARIABLES
  logs,        \* user_food_logs: the set of stored rows
  nextId,      \* next primary key the store hands out
  cacheStore,  \* Redis: key string -> [val, ttl, age]; absent keys are not in the domain
  redisUp,     \* whether the Redis client is initialised and answering
  pc,          \* per request slot: the await the handler is suspended at
  req,         \* per request slot: the request being handled
  loc,         \* per request slot: the handler's local variables
  ov,          \* history, per slot: which kinds of request overlapped the current one
  last,        \* history: the request whose response was sent most recently
  rl,          \* rate-limit calls: per caller, position and locals of rateLimit.check
  rlOut,       \* rate-limit calls: the results returned so far
  rlHist,      \* history, per counter key: window number, checks and expire calls in it,
               \* checks ever made
  adm,         \* history, per counter key: the admissions of the last window length
  users,       \* users LEFT JOIN user_preferences: user id -> profile and goal columns
  uploads      \* the uploads directory: files stored so far, and those that exist

vars == <<logs, nextId, cacheStore, redisUp, pc, req, loc, ov, last, rl, rlOut, rlHist, adm,
          users, uploads>>

\* ------------------------------------------------------------ dates, keys
Digit(n) == CASE n = 0 -> "0" [] n = 1 -> "1" [] n = 2 -> "2" [] n = 3 -> "3"
              [] n = 4 -> "4" [] n = 5 -> "5" [] n = 6 -> "6" [] n = 7 -> "7"
              [] n = 8 -> "8" [] n = 9 -> "9"

TwoDigits(n) == Digit(n \div 10) \o Digit(n % 10)

DayName(d) == CASE d % 7 = 1 -> "Mon" [] d % 7 = 2 -> "Tue" [] d % 7 = 3 -> "Wed"
                [] d % 7 = 4 -> "Thu" [] d % 7 = 5 -> "Fri" [] d % 7 = 6 -> "Sat"
                [] d % 7 = 0 -> "Sun"

\* The YYYY-MM-DD string a client sends for day d.
IsoDate(d) == "2024-01-" \o TwoDigits(d)

\* The DATE value the store keeps for a YYYY-MM-DD string (the day number).
ParseDate(s) == CHOOSE d \in 1..31 : IsoDate(d) = s

\* A DATE column comes back from the driver as a Date object; in a template
\* literal it is converted by Date.prototype.toString.
DateToString(d) ==
  DayName(d) \o " Jan " \o TwoDigits(d) \o " 2024 00:00:00 GMT+0000 (Coordinated Universal Time)"

\* `daily_nutrition:${req.user.id}:${date}` with the date already a string.
DailyKey(u, dateStr) == "daily_nutrition:" \o u \o ":" \o dateStr

WeeklyKey(u, dateStr) == "weekly_summary:" \o u \o ":" \o dateStr

\* ------------------------------------------------------------ CacheStore
\* What a division by zero evaluates to: x / 0 is Infinity (or -Infinity), 0 / 0 is NaN.
Infinity == 999998
NaN == 0 - 999998

\* null in a JSON document.
JsonNull == 0 - 999997

\* A DATE column as the driver returns it: a Date object of day d.
DateObject(d) == [type |-> "Date", day |-> d]

\* What JSON.stringify writes for a Date: the string of its toISOString().
DateJson(d) == [type |-> "string", day |-> d]

\* JSON.stringify of a number: a number that is not finite is written as null.
NumberJson(x) == IF x = Infinity \/ x = NaN \/ x = 0 - Infinity THEN JsonNull ELSE x

\* JSON.parse(JSON.stringify(value)) for the values the routes cache: in a
\* weekly summary the date of each day is a Date object, in a daily summary a
\* percentage may be Infinity or NaN; strings, finite numbers, booleans,
\* arrays and objects are read back as they were written.
JsonValue(value) ==
  IF "dailyData" \in DOMAIN value
    THEN [value EXCEPT !.dailyData =
            {[x EXCEPT !.date = IF @.type = "Date" THEN DateJson(@.day) ELSE @] : x \in @}]
  ELSE IF "percentages" \in DOMAIN value
    THEN [value EXCEPT !.percentages = [f \in DOMAIN @ |-> NumberJson(@[f])]]
  ELSE value

\* What a key holds: the value as JSON.parse reads the stored text, the
\* remaining time-to-live in seconds, and (history) the seconds elapsed since
\* the value was stored and the value that was passed to cache.set.
CacheEntry(value, ttl) ==
  [val |-> JsonValue(value), ttl |-> ttl, age |-> 0, orig |-> value]

\* Faulty variant of CacheOk: the flag is true whatever happened.
CacheOkAlways == TRUE

\* The flag cache.set and cache.del return: true when the call to the client
\* returned, false when getClient or the client raised inside the try block.
CacheOk == redisUp

\* cache.set: client.setEx(key, ttl, JSON.stringify(value)).
CacheSet(c, key, value, ttl) ==
  IF redisUp
    THEN [k \in (DOMAIN c) \cup {key} |-> IF k = key THEN CacheEntry(value, ttl) ELSE c[k]]
    ELSE c

\* cache.get: the parsed value, or null when the key is absent or the call fails.
CacheGet(c, key) ==
  IF redisUp /\ key \in DOMAIN c
    THEN [found |-> TRUE, val |-> c[key].val]
    ELSE [found |-> FALSE]

\* cache.del: client.del(key); deleting an absent key changes nothing.
CacheDel(c, key) ==
  IF redisUp
    THEN [k \in (DOMAIN c) \ {key} |-> c[k]]
    ELSE c

EmptyCache == [k \in {} |-> 0]

\* ----------------------------------------------------------- RateLimiter
\* The rate-limited operation classes of the AI routes.
Classes == {"recognize", "advice", "meal_plan", "trends", "tips"}

\* Faulty variant of RLKey: the user id left out of the key.
RLKeyNoUser(class, u) == "ai_" \o class \o "_"

\* `ai_recognize_${req.user.id}`, `ai_advice_${req.user.id}`, ...
RLKey(class, u) == "ai_" \o class \o "_" \o u

\* Every counter key the routes can build.
CounterKeys == {RLKey(cl, u) : cl \in Classes, u \in Users}

\* `ai_recognize_${req.user.id}`
RLKeys == {"ai_recognize_u1"}

RLIdle == [pc |-> "idle", key |-> "", limit |-> 0, window |-> 0, current |-> 0,
           win |-> 0, nth |-> 0, expired |-> FALSE, overlap |-> FALSE]

\* client.incr(key): the store after it; an absent key starts at 1 with no expiry.
RedisIncr(c, key) ==
  [k \in (DOMAIN c) \cup {key} |->
     IF k # key THEN c[k]
     ELSE IF key \in DOMAIN c THEN [c[key] EXCEPT !.val = @ + 1]
     ELSE [val |-> 1, ttl |-> 0 - 1, age |-> 0]]

\* client.expire(key, seconds): sets the time-to-live of an existing key.
RedisExpire(c, key, seconds) ==
  IF key \in DOMAIN c THEN [c EXCEPT ![key].ttl = seconds] ELSE c

\* client.ttl(key): -2 for an absent key, -1 for a key without expiry.
RedisTtl(c, key) == IF key \in DOMAIN c THEN c[key].ttl ELSE 0 - 2

\* Faulty variant of Allowed: the limit itself is refused.
AllowedStrict(current, limit) == current < limit

\* Faulty variant of Allowed: one request more than the limit is admitted.
AllowedOneMore(current, limit) == current <= limit + 1

\* allowed: current <= limit
Allowed(current, limit) == current <= limit

\* Faulty variant of StartsWindow: the expiry is set on every check.
StartsWindowAlways(current) == TRUE

\* if (current === 1): this check starts the window.
StartsWindow(current) == current = 1

\* getClient() and client.incr(key) of a check that caller c starts: the store,
\* the caller's locals and the key's history after the increment returned.
IncrEffect(c, key, limit, window) ==
  /\ rl[c].pc = "idle"
  /\ redisUp
  /\ LET store == RedisIncr(cacheStore, key)
         fresh == key \notin DOMAIN cacheStore
         h == IF fresh THEN [win |-> rlHist[key].win + 1, nth |-> 1, expires |-> 0,
                             total |-> rlHist[key].total + 1]
              ELSE [rlHist[key] EXCEPT !.nth = @ + 1, !.total = @ + 1]
         busy == \E x \in Procs \ {c} : rl[x].pc # "idle"
     IN /\ cacheStore' = store
        /\ rlHist' = [rlHist EXCEPT ![key] = h]
        \* history: this call and every call in flight now overlap.
        /\ rl' = [x \in Procs |->
                    IF x = c
                    THEN [pc |-> IF StartsWindow(store[key].val) THEN "expire" ELSE "ttl",
                          key |-> key, limit |-> limit, window |-> window,
                          current |-> store[key].val, win |-> h.win, nth |-> h.nth,
                          expired |-> FALSE, overlap |-> busy]
                    ELSE IF rl[x].pc # "idle" THEN [rl[x] EXCEPT !.overlap = TRUE]
                    ELSE rl[x]]

\* Callers are interchangeable: a new call takes the lowest idle slot.
LowestIdle(c) == \A x \in Procs : x < c => rl[x].pc # "idle"

\* The checks made so far, returned or in flight.
ChecksMade == Cardinality(rlOut) + Cardinality({x \in Procs : rl[x].pc # "idle"})

\* rateLimit.check is called: getClient, then the increment returns.
RLIncr(c, key, limit, window) ==
  /\ LowestIdle(c)
  /\ ChecksMade < MaxChecks
  /\ IncrEffect(c, key, limit, window)
  /\ UNCHANGED <<logs, nextId, redisUp, pc, req, loc, ov, last, rlOut, adm, users, uploads>>

\* client.expire(key, window) returns.
RLExpire(c) ==
  /\ rl[c].pc = "expire"
  /\ redisUp
  /\ cacheStore' = RedisExpire(cacheStore, rl[c].key, rl[c].window)
  /\ rlHist' = [rlHist EXCEPT ![rl[c].key].expires =
                   IF rl[c].key \in DOMAIN cacheStore THEN @ + 1 ELSE @]
  /\ rl' = [rl EXCEPT ![c].pc = "ttl", ![c].expired = TRUE]
  /\ UNCHANGED <<logs, nextId, redisUp, pc, req, loc, ov, last, rlOut, adm, users, uploads>>

\* { allowed: current <= limit, count: current, limit, resetTime: await client.ttl(key) }
\* for the check of caller c, with its history.
CheckResult(c) ==
  [key |-> rl[c].key, limit |-> rl[c].limit, window |-> rl[c].window,
   allowed |-> Allowed(rl[c].current, rl[c].limit),
   count |-> rl[c].current,
   resetTime |-> RedisTtl(cacheStore, rl[c].key),
   win |-> rl[c].win, nth |-> rl[c].nth, expired |-> rl[c].expired,
   overlap |-> rl[c].overlap, raisedAt |-> "none"]

\* client.ttl(key) returns and check returns { allowed, count, limit, resetTime }.
RLReturn(c) ==
  /\ rl[c].pc = "ttl"
  /\ redisUp
  /\ rlOut' = rlOut \cup {CheckResult(c)}
  /\ rl' = [rl EXCEPT ![c] = RLIdle]
  /\ UNCHANGED <<logs, nextId, cacheStore, redisUp, pc, req, loc, ov, last, rlHist, adm, users, uploads>>

\* Faulty variant of FailOpen: a failing store refuses the request.
FailClosed(limit) == [allowed |-> FALSE, count |-> 0, limit |-> limit, resetTime |-> 0]

\* catch (error): return { allowed: true, count: 0, limit, resetTime: 0 }
FailOpen(limit) == [allowed |-> TRUE, count |-> 0, limit |-> limit, resetTime |-> 0]

\* The result of a check of caller c, with limit `limit` on `key`, whose
\* storage step `step` raised: what the catch block returns.
Caught(c, key, limit, window, step) ==
  [key |-> key, limit |-> FailOpen(limit).limit, window |-> window,
   allowed |-> FailOpen(limit).allowed, count |-> FailOpen(limit).count,
   resetTime |-> FailOpen(limit).resetTime,
   win |-> rl[c].win, nth |-> rl[c].nth, expired |-> rl[c].expired,
   overlap |-> rl[c].overlap, raisedAt |-> step]

\* rateLimit.check is called while the client is not initialised or the
\* increment raises: the catch block returns.
RLFailStart(c, key, limit, window) ==
  /\ LowestIdle(c)
  /\ rl[c].pc = "idle"
  /\ ChecksMade < MaxChecks
  /\ ~redisUp
  /\ rlOut' = rlOut \cup {Caught(c, key, limit, window, "incr")}
  /\ UNCHANGED <<logs, nextId, cacheStore, redisUp, pc, req, loc, ov, last, rl, rlHist, adm, users, uploads>>

\* client.expire or client.ttl raises: the catch block returns.
RLFail(c) ==
  /\ rl[c].pc \in {"expire", "ttl"}
  /\ ~redisUp
  /\ rlOut' = rlOut \cup {Caught(c, rl[c].key, rl[c].limit, rl[c].window, rl[c].pc)}
  /\ rl' = [rl EXCEPT ![c] = RLIdle]
  /\ UNCHANGED <<logs, nextId, cacheStore, redisUp, pc, req, loc, ov, last, rlHist, adm, users, uploads>>

\* The Redis client stops answering (or was never initialised): its commands raise.
RedisFails ==
  /\ redisUp
  /\ redisUp' = FALSE
  /\ UNCHANGED <<logs, nextId, cacheStore, pc, req, loc, ov, last, rl, rlOut, rlHist, adm, users, uploads>>

\* The Redis client answers again.
RedisRecovers ==
  /\ ~redisUp
  /\ redisUp' = TRUE
  /\ UNCHANGED <<logs, nextId, cacheStore, pc, req, loc, ov, last, rl, rlOut, rlHist, adm, users, uploads>>

\* History: an admission stays on record for the length of its window.
Recent(e) == e.age <= e.window

\* History: the admissions of a key, d seconds later.
Aged(es, d) == SelectSeq([i \in 1..Len(es) |-> [es[i] EXCEPT !.age = @ + d]], Recent)

\* rateLimit.check is called, as RLIncr; the history records the moment of the
\* increment of every check that will return allowed.
TimedIncr(c, key, limit, window) ==
  /\ LowestIdle(c)
  /\ ChecksMade < MaxTimed
  /\ IncrEffect(c, key, limit, window)
  /\ adm' = [adm EXCEPT ![key] =
               IF Allowed(rl'[c].current, limit)
               THEN Append(@, [age |-> 0, window |-> window, limit |-> limit])
               ELSE @]
  /\ UNCHANGED <<logs, nextId, redisUp, pc, req, loc, ov, last, rlOut, users, uploads>>

\* ------------------------------------------------------ relational store
UndefNum == 0 - 999999
UndefStr == "undefined"

Zero == [f \in Fields |-> 0]

RECURSIVE SumField(_, _)
SumField(rows, f) ==
  IF rows = {} THEN 0
  ELSE LET r == CHOOSE x \in rows : TRUE
       IN r[f] + SumField(rows \ {r}, f)

\* WHERE user_id = $1 AND log_date = $2, the date parameter cast to DATE.
RowsOf(rows, u, dateStr) ==
  {r \in rows : r.user_id = u /\ r.log_date = ParseDate(dateStr)}

\* SELECT COALESCE(SUM(col), 0) ..., COUNT(*) for the user and date.
DailySums(rows, u, dateStr) ==
  [total |-> [f \in Fields |-> SumField(RowsOf(rows, u, dateStr), f)],
   totalFoods |-> Cardinality(RowsOf(rows, u, dateStr))]

\* History: the sums and count of the rows stored for user u on day d.
SumsOn(rows, u, d) ==
  LET mine == {r \in rows : r.user_id = u /\ r.log_date = d}
  IN [total |-> [f \in Fields |-> SumField(mine, f)], totalFoods |-> Cardinality(mine)]

\* History: the response body reports the totals and the count the store holds.
IsFresh(body, rows, u, d) ==
  /\ body.total = SumsOn(rows, u, d).total
  /\ body.totalFoods = SumsOn(rows, u, d).totalFoods

\* A row as res.json / JSON.stringify sends it: the DATE column as a timestamp string.
MealRow(r) == [id |-> r.id, log_date |-> IsoDate(r.log_date) \o "T00:00:00.000Z"]

\* The meals query grouped by meal type.
MealsOf(rows, u, dateStr) ==
  [m \in MealTypes |-> {MealRow(r) : r \in {x \in RowsOf(rows, u, dateStr) : x.meal_type = m}}]

NoMeals == [m \in MealTypes |-> {}]

\* Fixed-point product of two quantities in hundredths.
Mul(a, b) == (a * b) \div Scale

Truthy(x) == x # UndefNum /\ x # 0

TruthyStr(x) == x # UndefStr /\ x # ""

\* `x || 0`
Or0(x) == IF Truthy(x) THEN x ELSE 0

\* A row of users LEFT JOIN user_preferences with every column used NULL.
\* weight and the goals other than calorie_goal are DECIMAL columns,
\* target_calories and calorie_goal are INTEGER columns; all in hundredths.
NoProfile ==
  [weight |-> UndefNum, target_calories |-> UndefNum, calorie_goal |-> UndefNum,
   protein_goal |-> UndefNum, carb_goal |-> UndefNum, fat_goal |-> UndefNum,
   fiber_goal |-> UndefNum, sugar_goal |-> UndefNum, sodium_goal |-> UndefNum]

\* The goal column of a field.
GoalColumn(f) == IF f = "calories" THEN "calorie_goal"
                 ELSE IF f = "carbs" THEN "carb_goal" ELSE f \o "_goal"

\* Truthiness of a DECIMAL column as the driver returns it: NULL is null, any
\* value is a non-empty string such as "0.00".
TruthyDecimal(x) == x # UndefNum

\* An exact quotient n / d (d > 0), in hundredths.
Rat(n, d) == [n |-> n, d |-> d]

\* The global defaults of the targets object.
DefaultCalories == 2000
DefaultProtein == 150
DefaultCarbs == 250
DefaultFat == 67
DefaultFiber == 25
DefaultSugar == 50
DefaultSodium == 2300

\* const targets = { calories: user.calorie_goal || user.target_calories || 2000, ... }
\* with the quotients in lowest terms: x * 1.6 = x * 8 / 5, x * 0.45 / 4 = x * 9 / 80,
\* x * 0.25 / 9 = x / 36.
Targets(user) ==
  [calories |-> IF Truthy(user.calorie_goal) THEN Rat(user.calorie_goal, 1)
                ELSE IF Truthy(user.target_calories) THEN Rat(user.target_calories, 1)
                ELSE Rat(DefaultCalories * Scale, 1),
   protein |-> IF TruthyDecimal(user.protein_goal) THEN Rat(user.protein_goal, 1)
               ELSE IF TruthyDecimal(user.weight) THEN Rat(user.weight * 8, 5)
               ELSE Rat(DefaultProtein * Scale, 1),
   carbs |-> IF TruthyDecimal(user.carb_goal) THEN Rat(user.carb_goal, 1)
             ELSE IF Truthy(user.target_calories) THEN Rat(user.target_calories * 9, 80)
             ELSE Rat(DefaultCarbs * Scale, 1),
   fat |-> IF TruthyDecimal(user.fat_goal) THEN Rat(user.fat_goal, 1)
           ELSE IF Truthy(user.target_calories) THEN Rat(user.target_calories, 36)
           ELSE Rat(DefaultFat * Scale, 1),
   fiber |-> IF TruthyDecimal(user.fiber_goal) THEN Rat(user.fiber_goal, 1)
             ELSE Rat(DefaultFiber * Scale, 1),
   sugar |-> IF TruthyDecimal(user.sugar_goal) THEN Rat(user.sugar_goal, 1)
             ELSE Rat(DefaultSugar * Scale, 1),
   sodium |-> IF TruthyDecimal(user.sodium_goal) THEN Rat(user.sodium_goal, 1)
              ELSE Rat(DefaultSodium * Scale, 1)]

\* Math.round(a / b) for b > 0: the nearest integer, halves upwards.
MathRound(a, b) == (2 * a + b) \div (2 * b)

\* Math.round((total / target) * 100), a whole number of percent.
Percentage(total, t) ==
  IF t.n = 0
    THEN IF total = 0 THEN NaN ELSE IF total > 0 THEN Infinity ELSE 0 - Infinity
  ELSE IF t.n > 0 THEN MathRound(100 * total * t.d, t.n)
  ELSE MathRound(0 - 100 * total * t.d, 0 - t.n)

\* Faulty variant of Remaining: the difference itself.
RemainingSigned(total, t) == Rat(t.n - total * t.d, t.d)

\* Math.max(0, target - total)
Remaining(total, t) ==
  IF t.n - total * t.d > 0 THEN Rat(t.n - total * t.d, t.d) ELSE Rat(0, 1)

\* user_custom_foods (read-only here): per-serving values, undefined (NULL)
\* where the definition leaves them unset.
CustomFoods ==
  {[id |-> "cf1", user_id |-> "u1", calories |-> 10000, protein |-> 500, carbs |-> 0,
    fat |-> 0, fiber |-> UndefNum, sugar |-> UndefNum, sodium |-> UndefNum],
   [id |-> "cf2", user_id |-> "u2", calories |-> 20000, protein |-> 0, carbs |-> 0,
    fat |-> 0, fiber |-> UndefNum, sugar |-> UndefNum, sodium |-> UndefNum]}

\* food_nutrients JOIN nutrients (read-only here): food 1 has two canonical
\* nutrients and one that is not canonical.
FoodNutrients ==
  {[food_id |-> 1, name |-> "Energy (kcal)", amount |-> 5200],
   [food_id |-> 1, name |-> "Protein", amount |-> 30],
   [food_id |-> 1, name |-> "Calcium, Ca", amount |-> 600]}

\* The switch of the catalog branch: the field a nutrient name sets.
NutrientName(f) ==
  CASE f = "calories" -> "Energy (kcal)"
    [] f = "protein" -> "Protein"
    [] f = "carbs" -> "Carbohydrate, by difference"
    [] f = "fat" -> "Total lipid (fat)"
    [] f = "fiber" -> "Fiber, total dietary"
    [] f = "sugar" -> "Sugars, total"
    [] f = "sodium" -> "Sodium, Na"

\* let nutritionData = { calories: calories || 0, ... }
InitialNutrition(b) == [f \in Fields |-> Or0(b[f])]

\* Faulty variant of CustomFoodRows: the owner is not part of the lookup.
CustomFoodRowsAnyUser(id, u) == {c \in CustomFoods : c.id = id}

\* SELECT * FROM user_custom_foods WHERE id = $1 AND user_id = $2
CustomFoodRows(id, u) == {c \in CustomFoods : c.id = id /\ c.user_id = u}

\* Faulty variant of CustomNutrition: the per-serving values, not scaled.
CustomNutritionUnscaled(c, amount) == [f \in Fields |-> Or0(c[f])]

\* The custom branch: (per_serving || 0) * amount for each field.
CustomNutrition(c, amount) == [f \in Fields |-> Mul(Or0(c[f]), amount)]

\* The catalog branch: each matched row overwrites its field; the others keep
\* what nutritionData held before.
CatalogNutrition(init, foodId, amount) ==
  [f \in Fields |->
     LET rows == {r \in FoodNutrients : r.food_id = foodId /\ r.name = NutrientName(f)}
     IN IF rows = {} THEN init[f]
        ELSE Mul((CHOOSE r \in rows : TRUE).amount, amount)]

\* The nutrient payload the POST /log handler inserts (custom food found is a
\* precondition of the custom branch).
ResolveNutrition(b, u) ==
  IF TruthyStr(b.customFoodId)
    THEN CustomNutrition(CHOOSE c \in CustomFoodRows(b.customFoodId, u) : TRUE, b.amount)
  ELSE IF Truthy(b.foodId)
    THEN CatalogNutrition(InitialNutrition(b), b.foodId, b.amount)
  ELSE InitialNutrition(b)

\* /^\d{4}-\d{2}-\d{2}$/ over the date strings that requests carry here.
DateRegexOk(s) == \E d \in 1..31 : s = IsoDate(d)

\* ------------------------------------------------------- request handling
Columns == {"id", "user_id", "food_id", "custom_food_name", "amount", "unit", "meal_type",
            "log_date", "log_time"} \cup Fields

NoRow == [id |-> 0, user_id |-> "", food_id |-> 0, custom_food_name |-> "", amount |-> 0,
          unit |-> "", meal_type |-> "", log_date |-> 0, calories |-> 0, protein |-> 0,
          carbs |-> 0, fat |-> 0, fiber |-> 0, sugar |-> 0, sodium |-> 0]

NoBody == [date |-> "", total |-> Zero, totalFoods |-> 0, hasMeals |-> FALSE, meals |-> NoMeals,
           targets |-> [f \in Fields |-> Rat(0, 1)], percentages |-> Zero,
           remaining |-> [f \in Fields |-> Rat(0, 1)]]

\* A GET /weekly-summary response of a week without rows and without dates.
NoWeekly == [weekStart |-> "", weekEnd |-> "", dailyData |-> {}, total |-> Zero,
             foodCount |-> 0, average |-> Zero]

NoReq == [op |-> "none"]

\* A POST /log body with every field undefined.
NoLogBody ==
  [foodId |-> UndefNum, customFoodId |-> UndefStr, customFoodName |-> UndefStr,
   amount |-> UndefNum, unit |-> UndefStr, mealType |-> UndefStr, logDate |-> UndefStr,
   calories |-> UndefNum, protein |-> UndefNum, carbs |-> UndefNum, fat |-> UndefNum,
   fiber |-> UndefNum, sugar |-> UndefNum, sodium |-> UndefNum]

\* A PUT /log/:id body with every key undefined: the four keys of the schema
\* and keys that name columns.
NoUpdate == [amount |-> UndefNum, unit |-> UndefStr, mealType |-> UndefStr,
             logTime |-> UndefStr, calories |-> UndefNum, user_id |-> UndefStr,
             log_date |-> UndefStr]

NoOv == [r |-> FALSE, w |-> FALSE]

NoLoc == [cacheKey |-> "", hit |-> FALSE, cached |-> NoBody, sums |-> SumsOn({}, "", 0),
          meals |-> NoMeals, nutrition |-> Zero, existing |-> NoRow, result |-> NoRow,
          week |-> {}, storeReads |-> 0, hadCache |-> FALSE, afterLog |-> FALSE,
          user |-> NoProfile]

\* What is recorded when a response is sent (history only): the request, the
\* status, and what was true of the response, the store and the cache then.
\*   hit          cache.get found the key            fromCache  the cached value was sent
\*   hasMeals     the response carries meals          fresh      its totals and count are the store's
\*   sameAsCached the response is the value cache.get returned
\*   storeReads   store queries the request made      delKey     the key the write deleted
\*   keyAbsent    the daily key of (user, day) is absent         hadCache  it was present at the start
\*   ovR, ovW     a read / a write was in flight at some time during the request
\*   afterLog     the response before it was a successful log of the same user and
\*                day, made with the key present and nothing else in flight
\*   afterWrite   the response before it was a successful write of the same user
\*                and day during which no read was in flight
\*   othersIdle   no other request is in flight when the response is sent
\*   age          seconds since the cached value that was sent had been stored
\*   body         the body of a POST /log request      nutrition  the payload it resolved
\*   sent         the body of a GET /daily response   profile    the users row it was made from
\*   id           the entry id of a PUT or DELETE request      ubody  the body of a PUT
\*   before       the row its ownership SELECT returned         after  the row as updated
\*   wsent        the body of a GET /weekly-summary response
\*   key          the cache key a GET /weekly-summary request read
\*   trend        the trends array of a GET /trends response
\*   value        the value passed to a cache.set call      got  what a cache.get call returned
\*   ok           the flag a cache.set or cache.del call returned
\*   raised       the call raised to its caller             turn  alternates with each cache call
\*   file         the file multer stored for a POST /recognize-food request (0: none)
\*   window       the dates its query selected from
NoLast == [op |-> "none", user |-> "", day |-> 0, status |-> 0, includeMeals |-> FALSE,
           body |-> NoLogBody, nutrition |-> Zero, sent |-> NoBody, profile |-> NoProfile,
           id |-> 0, ubody |-> NoUpdate, before |-> NoRow, after |-> NoRow,
           wsent |-> NoWeekly, key |-> "", trend |-> <<>>, window |-> {},
           value |-> NoBody, got |-> [found |-> FALSE], ok |-> FALSE, raised |-> FALSE,
           turn |-> 0, file |-> 0,
           hit |-> FALSE, fromCache |-> FALSE, hasMeals |-> FALSE, fresh |-> FALSE,
           sameAsCached |-> FALSE, storeReads |-> 0, delKey |-> "",
           keyAbsent |-> TRUE, hadCache |-> FALSE, ovR |-> FALSE, ovW |-> FALSE,
           afterLog |-> FALSE, afterWrite |-> FALSE, othersIdle |-> TRUE, age |-> 0]

Reads == {"daily", "weekly"}
Writes == {"log", "update", "delete"}

InFlight(q) == pc[q] # "idle"

Ok(rec) == rec.status \in {200, 201}

\* History: slot p starts a request of the given kind (read or write) now.
OvAtStart(p, isWrite) ==
  [q \in Procs |->
     IF q = p
       THEN [r |-> \E o \in Procs \ {p} : InFlight(o) /\ req[o].op \in Reads,
             w |-> \E o \in Procs \ {p} : InFlight(o) /\ req[o].op \in Writes]
     ELSE IF InFlight(q)
       THEN [r |-> ov[q].r \/ ~isWrite, w |-> ov[q].w \/ isWrite]
     ELSE ov[q]]

\* History: the record of the response that slot p sends, for user u and day d,
\* given the store, the cache and the overlap flags at that moment.
Sent(p, op, u, d, status, rows, c, o) ==
  [NoLast EXCEPT !.op = op, !.user = u, !.day = d, !.status = status,
                 !.keyAbsent = DailyKey(u, IsoDate(d)) \notin DOMAIN c,
                 !.ovR = o[p].r, !.ovW = o[p].w,
                 !.othersIdle = \A q \in Procs \ {p} : ~InFlight(q),
                 !.afterWrite = /\ op \in Writes
                                /\ last.op \in Writes /\ Ok(last)
                                /\ last.user = u /\ last.day = d /\ ~last.ovR]

\* The response slot p has sent: the slot is free again.
Finish(p, rec) ==
  /\ last' = rec
  /\ pc' = [pc EXCEPT ![p] = "idle"]
  /\ loc' = [loc EXCEPT ![p] = NoLoc]
  /\ req' = [req EXCEPT ![p] = NoReq]

\* The ids of the rows of the users table.
UsersTable == Users

\* The state at start with the users table, the rows of user_food_logs and
\* the keys of Redis given: the ids handed out so far are those of the rows,
\* and the uploads directory is empty.
InitState(profiles, rows, keys) ==
  /\ users = profiles
  /\ logs = rows
  /\ nextId = Cardinality(rows) + 1
  /\ cacheStore = keys
  /\ uploads = [made |-> 0, files |-> {}]
  /\ redisUp = TRUE
  /\ pc = [p \in Procs |-> "idle"]
  /\ req = [p \in Procs |-> NoReq]
  /\ loc = [p \in Procs |-> NoLoc]
  /\ ov = [p \in Procs |-> NoOv]
  /\ last = NoLast
  /\ rl = [c \in Procs |-> RLIdle]
  /\ rlOut = {}
  /\ rlHist = [k \in CounterKeys |-> [win |-> 0, nth |-> 0, expires |-> 0, total |-> 0]]
  /\ adm = [k \in CounterKeys |-> <<>>]

\* The state at start with the users table and the rows of user_food_logs
\* given, and nothing in Redis.
InitStore(profiles, rows) == InitState(profiles, rows, EmptyCache)

\* The state at start with the users table given and no food logged.
InitWith(profiles) == InitStore(profiles, {})

\* Users without preferences and without profile data.
Init == InitWith([u \in UsersTable |-> NoProfile])

\* ------------------------------------------------------------ GET /daily
\* The response object built at lines 105-131, with meals when requested.
DailyResponse(dateStr, sums, inc, meals, user) ==
  [date |-> dateStr, total |-> sums.total, totalFoods |-> sums.totalFoods,
   hasMeals |-> inc, meals |-> IF inc THEN meals ELSE NoMeals,
   targets |-> Targets(user),
   percentages |-> [f \in Fields |-> Percentage(sums.total[f], Targets(user)[f])],
   remaining |-> [f \in Fields |-> Remaining(sums.total[f], Targets(user)[f])]]

\* Faulty variant of ServeFromCache: the includeMeals test dropped.
ServeFromCacheAlways(found, inc) == found

\* if (cachedData && !includeMeals): answer from the cache.
ServeFromCache(found, inc) == found /\ ~inc

\* The request arrives; the handler awaits cache.get and, on a miss or when
\* meals are asked for, the users query.
DailyStart(p, u, dateStr, inc) ==
  /\ pc[p] = "idle"
  /\ LET got == CacheGet(cacheStore, DailyKey(u, dateStr))
         o == OvAtStart(p, FALSE)
         d == ParseDate(dateStr)
         aLog == /\ last.op = "log" /\ Ok(last) /\ last.user = u /\ last.day = d
                 /\ last.hadCache /\ ~last.ovR /\ ~last.ovW
         rec == [Sent(p, "daily", u, d, 200, logs, cacheStore, o) EXCEPT
                   !.includeMeals = inc, !.hit = got.found, !.afterLog = aLog]
     IN IF ~DateRegexOk(dateStr)
          THEN /\ Finish(p, [rec EXCEPT !.status = 400])
               /\ ov' = [o EXCEPT ![p] = NoOv]
        ELSE IF ServeFromCache(got.found, inc)
          THEN /\ Finish(p, [rec EXCEPT !.fromCache = TRUE, !.sameAsCached = TRUE,
                                         !.age = cacheStore[DailyKey(u, dateStr)].age,
                                         !.hasMeals = got.val.hasMeals, !.sent = got.val,
                                         !.fresh = IsFresh(got.val, logs, u, d)])
               /\ ov' = [o EXCEPT ![p] = NoOv]
        ELSE IF u \notin UsersTable
          THEN /\ Finish(p, [rec EXCEPT !.status = 404, !.storeReads = 1])
               /\ ov' = [o EXCEPT ![p] = NoOv]
        ELSE /\ pc' = [pc EXCEPT ![p] = "d_sum"]
             /\ req' = [req EXCEPT ![p] = [op |-> "daily", user |-> u, date |-> dateStr,
                                           includeMeals |-> inc]]
             /\ loc' = [loc EXCEPT ![p] = [NoLoc EXCEPT !.cacheKey = DailyKey(u, dateStr),
                                             !.hit = got.found,
                                             !.cached = IF got.found THEN got.val ELSE NoBody,
                                             !.storeReads = 1, !.afterLog = aLog,
                                             !.user = users[u]]]
             /\ ov' = o
             /\ last' = last
  /\ UNCHANGED <<logs, nextId, cacheStore, redisUp, rl, rlOut, rlHist, adm, users, uploads>>

\* The sums query returns.
DailySum(p) ==
  /\ pc[p] = "d_sum"
  /\ loc' = [loc EXCEPT ![p].sums = DailySums(logs, req[p].user, req[p].date),
                         ![p].storeReads = @ + 1]
  /\ pc' = [pc EXCEPT ![p] = IF req[p].includeMeals THEN "d_meals" ELSE "d_set"]
  /\ UNCHANGED <<logs, nextId, cacheStore, redisUp, req, ov, last, rl, rlOut, rlHist, adm, users, uploads>>

\* The meals query returns (includeMeals only).
DailyMeals(p) ==
  /\ pc[p] = "d_meals"
  /\ loc' = [loc EXCEPT ![p].meals = MealsOf(logs, req[p].user, req[p].date),
                         ![p].storeReads = @ + 1]
  /\ pc' = [pc EXCEPT ![p] = "d_set"]
  /\ UNCHANGED <<logs, nextId, cacheStore, redisUp, req, ov, last, rl, rlOut, rlHist, adm, users, uploads>>

\* cache.set(cacheKey, response, 300), then res.json(response).
DailySet(p) ==
  /\ pc[p] = "d_set"
  /\ LET r == req[p]
         response == DailyResponse(r.date, loc[p].sums, r.includeMeals, loc[p].meals,
                                   loc[p].user)
         c == CacheSet(cacheStore, loc[p].cacheKey, response, DailyTTL)
     IN /\ cacheStore' = c
        /\ Finish(p, [Sent(p, "daily", r.user, ParseDate(r.date), 200, logs, c, ov) EXCEPT
                        !.includeMeals = r.includeMeals, !.hit = loc[p].hit,
                        !.hasMeals = response.hasMeals, !.sent = response,
                        !.profile = loc[p].user,
                        !.fresh = IsFresh(response, logs, r.user, ParseDate(r.date)),
                        !.sameAsCached = loc[p].hit /\ response = loc[p].cached,
                        !.storeReads = loc[p].storeReads, !.afterLog = loc[p].afterLog])
  /\ ov' = [ov EXCEPT ![p] = NoOv]
  /\ UNCHANGED <<logs, nextId, redisUp, rl, rlOut, rlHist, adm, users, uploads>>

\* ------------------------------------------------------------- POST /log
\* if (!foodId && !customFoodId && !customFoodName)
NoSource(b) == ~Truthy(b.foodId) /\ ~TruthyStr(b.customFoodId) /\ ~TruthyStr(b.customFoodName)

\* INSERT INTO user_food_logs (...) VALUES (...) RETURNING *
NewRow(id, u, b, n) ==
  [id |-> id, user_id |-> u, food_id |-> IF b.foodId = UndefNum THEN 0 ELSE b.foodId,
   custom_food_name |-> IF b.customFoodName = UndefStr THEN "" ELSE b.customFoodName,
   amount |-> b.amount, unit |-> b.unit, meal_type |-> b.mealType,
   log_date |-> ParseDate(b.logDate),
   calories |-> n.calories, protein |-> n.protein, carbs |-> n.carbs, fat |-> n.fat,
   fiber |-> n.fiber, sugar |-> n.sugar, sodium |-> n.sodium]

\* Faulty variant of LogCacheKey: the key built from the parsed date, as a Date object.
LogCacheKeyFromDate(u, b) == DailyKey(u, DateToString(ParseDate(b.logDate)))

\* Faulty variant of LogCacheKey: the key of the week starting on the date.
LogCacheKeyWeekly(u, b) == WeeklyKey(u, b.logDate)

\* The cache key POST /log deletes: the date is the request's logDate string.
LogCacheKey(u, b) == DailyKey(u, b.logDate)

\* Number of inserts that requests in flight are still going to make.
PendingInserts == Cardinality({q \in Procs : pc[q] = "l_insert"})

\* validateRequest(schema): the middleware calls next() whatever the body is.
ValidateRequest(b) == TRUE

\* The request arrives: validation, then the custom-food or catalog lookup.
LogStart(p, u, b) ==
  /\ pc[p] = "idle"
  /\ nextId + PendingInserts <= MaxLogs
  /\ LET o == OvAtStart(p, TRUE)
         d == IF DateRegexOk(b.logDate) THEN ParseDate(b.logDate) ELSE 0
         rec == [Sent(p, "log", u, d, 400, logs, cacheStore, o) EXCEPT !.body = b]
     IN IF ~ValidateRequest(b) \/ ~DateRegexOk(b.logDate) \/ NoSource(b)
          THEN /\ Finish(p, rec)
               /\ ov' = [o EXCEPT ![p] = NoOv]
        ELSE IF TruthyStr(b.customFoodId) /\ CustomFoodRows(b.customFoodId, u) = {}
          THEN /\ Finish(p, [rec EXCEPT !.status = 404, !.storeReads = 1])
               /\ ov' = [o EXCEPT ![p] = NoOv]
        ELSE /\ pc' = [pc EXCEPT ![p] = "l_insert"]
             /\ req' = [req EXCEPT ![p] = [op |-> "log", user |-> u, body |-> b]]
             /\ loc' = [loc EXCEPT ![p] = [NoLoc EXCEPT
                          !.nutrition = ResolveNutrition(b, u),
                          !.cacheKey = LogCacheKey(u, b),
                          !.hadCache = DailyKey(u, b.logDate) \in DOMAIN cacheStore]]
             /\ ov' = o
             /\ last' = last
  /\ UNCHANGED <<logs, nextId, cacheStore, redisUp, rl, rlOut, rlHist, adm, users, uploads>>

\* The INSERT returns.
LogInsert(p) ==
  /\ pc[p] = "l_insert"
  /\ LET row == NewRow(nextId, req[p].user, req[p].body, loc[p].nutrition)
     IN /\ logs' = logs \cup {row}
        /\ loc' = [loc EXCEPT ![p].result = row]
  /\ nextId' = nextId + 1
  /\ pc' = [pc EXCEPT ![p] = "l_del"]
  /\ UNCHANGED <<cacheStore, redisUp, req, ov, last, rl, rlOut, rlHist, adm, users, uploads>>

\* cache.del(cacheKey), then the 201 response.
LogDel(p) ==
  /\ pc[p] = "l_del"
  /\ LET c == CacheDel(cacheStore, loc[p].cacheKey)
     IN /\ cacheStore' = c
        /\ Finish(p, [Sent(p, "log", req[p].user, loc[p].result.log_date, 201, logs, c, ov)
                        EXCEPT !.delKey = loc[p].cacheKey, !.hadCache = loc[p].hadCache,
                               !.body = req[p].body, !.nutrition = loc[p].nutrition])
  /\ ov' = [ov EXCEPT ![p] = NoOv]
  /\ UNCHANGED <<logs, nextId, redisUp, rl, rlOut, rlHist, adm, users, uploads>>

\* --------------------------------------------------------- PUT /log/:id
NumKeys == {"amount", "calories"}

\* Object.keys(updateData) filtered by updateData[key] !== undefined
UpdateKeys(b) ==
  {k \in DOMAIN b : IF k \in NumKeys THEN b[k] # UndefNum ELSE b[k] # UndefStr}

\* Faulty variant of OwnedRows: the owner is not part of the condition.
OwnedRowsAnyUser(rows, id, u) == {r \in rows : r.id = id}

\* SELECT ... FROM user_food_logs WHERE id = $1 AND user_id = $2
OwnedRows(rows, id, u) == {r \in rows : r.id = id /\ r.user_id = u}

\* UPDATE user_food_logs SET <key> = <value>, ... : the row after the update.
UpdatedRow(row, b) ==
  [c \in DOMAIN row |-> IF c \notin UpdateKeys(b) THEN row[c]
                        ELSE IF c = "log_date" THEN ParseDate(b[c]) ELSE b[c]]

\* The cache key PUT /log/:id deletes: the date is the log_date column of the
\* row read before the update, a Date object put into the template literal.
UpdateCacheKey(u, row) == DailyKey(u, DateToString(row.log_date))

\* The request arrives: the ownership SELECT, then the update fields are built.
UpdStart(p, u, id, b) ==
  /\ pc[p] = "idle"
  /\ LET o == OvAtStart(p, TRUE)
         found == OwnedRows(logs, id, u)
         row == IF found = {} THEN NoRow ELSE CHOOSE r \in found : TRUE
         rec == [Sent(p, "update", u, row.log_date, 404, logs, cacheStore, o)
                   EXCEPT !.storeReads = 1, !.id = id, !.ubody = b, !.before = row]
     IN IF found = {} \/ UpdateKeys(b) = {}
          THEN /\ Finish(p, [rec EXCEPT !.status = IF found = {} THEN 404 ELSE 400])
               /\ ov' = [o EXCEPT ![p] = NoOv]
        ELSE /\ pc' = [pc EXCEPT ![p] = "u_update"]
             /\ req' = [req EXCEPT ![p] = [op |-> "update", user |-> u, id |-> id, body |-> b]]
             /\ loc' = [loc EXCEPT ![p] = [NoLoc EXCEPT !.existing = row, !.storeReads = 1]]
             /\ ov' = o
             /\ last' = last
  /\ UNCHANGED <<logs, nextId, cacheStore, redisUp, rl, rlOut, rlHist, adm, users, uploads>>

\* The UPDATE returns, or raises when a key of the body names no column.
UpdUpdate(p) ==
  /\ pc[p] = "u_update"
  /\ LET r == req[p]
         found == OwnedRows(logs, r.id, r.user)
     IN IF ~(UpdateKeys(r.body) \subseteq Columns)
          THEN /\ Finish(p, [Sent(p, "update", r.user, loc[p].existing.log_date, 500,
                                   logs, cacheStore, ov)
                               EXCEPT !.id = r.id, !.ubody = r.body,
                                      !.before = loc[p].existing])
               /\ ov' = [ov EXCEPT ![p] = NoOv]
               /\ logs' = logs
        ELSE /\ logs' = (logs \ found) \cup {UpdatedRow(x, r.body) : x \in found}
             /\ loc' = [loc EXCEPT ![p].result =
                          IF found = {} THEN NoRow
                          ELSE UpdatedRow(CHOOSE x \in found : TRUE, r.body)]
             /\ pc' = [pc EXCEPT ![p] = "u_del"]
             /\ UNCHANGED <<req, ov, last>>
  /\ UNCHANGED <<nextId, cacheStore, redisUp, rl, rlOut, rlHist, adm, users, uploads>>

\* cache.del(cacheKey), then the 200 response.
UpdDel(p) ==
  /\ pc[p] = "u_del"
  /\ LET key == UpdateCacheKey(req[p].user, loc[p].existing)
         c == CacheDel(cacheStore, key)
     IN /\ cacheStore' = c
        /\ Finish(p, [Sent(p, "update", req[p].user, loc[p].existing.log_date, 200, logs, c, ov)
                        EXCEPT !.delKey = key, !.id = req[p].id, !.ubody = req[p].body,
                               !.before = loc[p].existing, !.after = loc[p].result])
  /\ ov' = [ov EXCEPT ![p] = NoOv]
  /\ UNCHANGED <<logs, nextId, redisUp, rl, rlOut, rlHist, adm, users, uploads>>

\* ------------------------------------------------------ DELETE /log/:id
\* The cache key DELETE /log/:id deletes: the date is the log_date column read
\* before the deletion, a Date object put into the template literal.
DeleteCacheKey(u, logDate) == DailyKey(u, DateToString(logDate))

\* The request arrives: SELECT log_date of the caller's row.
DelStart(p, u, id) ==
  /\ pc[p] = "idle"
  /\ LET o == OvAtStart(p, TRUE)
         found == OwnedRows(logs, id, u)
     IN IF found = {}
          THEN /\ Finish(p, [Sent(p, "delete", u, 0, 404, logs, cacheStore, o)
                              EXCEPT !.storeReads = 1, !.id = id])
               /\ ov' = [o EXCEPT ![p] = NoOv]
        ELSE /\ pc' = [pc EXCEPT ![p] = "x_delete"]
             /\ req' = [req EXCEPT ![p] = [op |-> "delete", user |-> u, id |-> id]]
             /\ loc' = [loc EXCEPT ![p] = [NoLoc EXCEPT
                          !.existing = CHOOSE r \in found : TRUE, !.storeReads = 1]]
             /\ ov' = o
             /\ last' = last
  /\ UNCHANGED <<logs, nextId, cacheStore, redisUp, rl, rlOut, rlHist, adm, users, uploads>>

\* DELETE ... RETURNING id: the row returned, with its id only, or none.
Deleted(rows, id, u) ==
  IF OwnedRows(rows, id, u) = {} THEN NoRow ELSE [NoRow EXCEPT !.id = id]

\* The DELETE returns.
DelDelete(p) ==
  /\ pc[p] = "x_delete"
  /\ logs' = logs \ OwnedRows(logs, req[p].id, req[p].user)
  /\ loc' = [loc EXCEPT ![p].result = Deleted(logs, req[p].id, req[p].user)]
  /\ pc' = [pc EXCEPT ![p] = "x_del"]
  /\ UNCHANGED <<nextId, cacheStore, redisUp, req, ov, last, rl, rlOut, rlHist, adm, users, uploads>>

\* cache.del(cacheKey), then the 200 response.
DelDel(p) ==
  /\ pc[p] = "x_del"
  /\ LET key == DeleteCacheKey(req[p].user, loc[p].existing.log_date)
         c == CacheDel(cacheStore, key)
     IN /\ cacheStore' = c
        /\ Finish(p, [Sent(p, "delete", req[p].user, loc[p].existing.log_date, 200, logs, c, ov)
                        EXCEPT !.delKey = key, !.id = req[p].id, !.before = loc[p].existing,
                               !.after = loc[p].result])
  /\ ov' = [ov EXCEPT ![p] = NoOv]
  /\ UNCHANGED <<logs, nextId, redisUp, rl, rlOut, rlHist, adm, users, uploads>>

\* ---------------------------------------------------- GET /weekly-summary
\* Math.round(total / n) for a total in hundredths: a whole number, in hundredths.
RoundDiv(total, n) == ((2 * total + Scale * n) \div (2 * Scale * n)) * Scale

\* The grouped query: one row per day of startDay..startDay+6 that has entries.
WeeklyRows(rows, u, startDay) ==
  {[day |-> d, date |-> DateObject(d), total |-> SumsOn(rows, u, d).total,
    foodCount |-> SumsOn(rows, u, d).totalFoods] :
     d \in {x \in startDay..(startDay + 6) : SumsOn(rows, u, x).totalFoods > 0}}

RECURSIVE SumDays(_, _)
SumDays(days, f) ==
  IF days = {} THEN 0
  ELSE LET x == CHOOSE y \in days : TRUE
       IN x.total[f] + SumDays(days \ {x}, f)

\* weeklyData.total.foodCount += day.foodCount
RECURSIVE SumCounts(_)
SumCounts(days) ==
  IF days = {} THEN 0
  ELSE LET x == CHOOSE y \in days : TRUE
       IN x.foodCount + SumCounts(days \ {x})

\* Faulty variant of DaysWithData: the length of the window.
DaysOfWeek(days) == 7

\* const daysWithData = weeklyData.dailyData.length || 1
DaysWithData(days) == IF Cardinality(days) = 0 THEN 1 ELSE Cardinality(days)

\* The response object of lines 627-688.
WeeklyResponse(startStr, days) ==
  LET n == DaysWithData(days)
      total == [f \in Fields |-> SumDays(days, f)]
  IN [weekStart |-> startStr, weekEnd |-> IsoDate(ParseDate(startStr) + 6),
      dailyData |-> days, total |-> total, foodCount |-> SumCounts(days),
      average |-> [f \in Fields |-> RoundDiv(total[f], n)]]

\* The Monday of the week that day d is in (lines 585-590, for today).
MondayOf(d) == d - ((d + 6) % 7)

\* startDate: the weekStart of the query as it is, or the Monday of the
\* current week when the query has none.
StartDate(weekStart, today) ==
  IF TruthyStr(weekStart) THEN weekStart ELSE IsoDate(MondayOf(today))

\* History: the weekly body reports the totals and the count the store holds
\* for the seven days from its week start.
WeeklyFresh(body, rows, u) ==
  LET mine == {r \in rows : r.user_id = u /\ r.log_date \in
                 ParseDate(body.weekStart)..(ParseDate(body.weekStart) + 6)}
  IN /\ body.foodCount = Cardinality(mine)
     /\ \A f \in Fields : body.total[f] = SumField(mine, f)

\* The request arrives with a weekStart; the handler awaits cache.get.
WeeklyStart(p, u, startStr) ==
  /\ pc[p] = "idle"
  /\ LET key == WeeklyKey(u, startStr)
         got == CacheGet(cacheStore, key)
         o == OvAtStart(p, FALSE)
         rec == [Sent(p, "weekly", u, ParseDate(startStr), 200, logs, cacheStore, o)
                   EXCEPT !.hit = got.found, !.key = key]
     IN IF got.found
          THEN /\ Finish(p, [rec EXCEPT !.fromCache = TRUE, !.sameAsCached = TRUE,
                                         !.age = cacheStore[key].age, !.wsent = got.val,
                                         !.fresh = WeeklyFresh(got.val, logs, u)])
               /\ ov' = [o EXCEPT ![p] = NoOv]
        ELSE /\ pc' = [pc EXCEPT ![p] = "w_query"]
             /\ req' = [req EXCEPT ![p] = [op |-> "weekly", user |-> u, date |-> startStr]]
             /\ loc' = [loc EXCEPT ![p] = [NoLoc EXCEPT !.cacheKey = key]]
             /\ ov' = o
             /\ last' = last
  /\ UNCHANGED <<logs, nextId, cacheStore, redisUp, rl, rlOut, rlHist, adm, users, uploads>>

\* The grouped query returns.
WeeklyQuery(p) ==
  /\ pc[p] = "w_query"
  /\ loc' = [loc EXCEPT ![p].week = WeeklyRows(logs, req[p].user, ParseDate(req[p].date)),
                         ![p].storeReads = @ + 1]
  /\ pc' = [pc EXCEPT ![p] = "w_set"]
  /\ UNCHANGED <<logs, nextId, cacheStore, redisUp, req, ov, last, rl, rlOut, rlHist, adm, users, uploads>>

\* cache.set(cacheKey, response, 3600), then res.json(response).
WeeklySet(p) ==
  /\ pc[p] = "w_set"
  /\ LET r == req[p]
         response == WeeklyResponse(r.date, loc[p].week)
         c == CacheSet(cacheStore, loc[p].cacheKey, response, WeeklyTTL)
     IN /\ cacheStore' = c
        /\ Finish(p, [Sent(p, "weekly", r.user, ParseDate(r.date), 200, logs, c, ov) EXCEPT
                        !.storeReads = loc[p].storeReads, !.key = loc[p].cacheKey,
                        !.wsent = response, !.fresh = WeeklyFresh(response, logs, r.user)])
  /\ ov' = [ov EXCEPT ![p] = NoOv]
  /\ UNCHANGED <<logs, nextId, redisUp, rl, rlOut, rlHist, adm, users, uploads>>

\* ------------------------------------------------------------ GET /trends
\* const { period = 30, startDate, endDate } = req.query
DefaultPeriod == 30

\* The dates of the model's calendar.
Calendar == 1..31

\* The dates the WHERE clause selects: BETWEEN startDate AND endDate when both
\* are given, otherwise every date from `period` days before CURRENT_DATE on.
TrendWindow(startDate, endDate, period, today) ==
  IF TruthyStr(startDate) /\ TruthyStr(endDate)
    THEN {d \in Calendar : ParseDate(startDate) <= d /\ d <= ParseDate(endDate)}
    ELSE {d \in Calendar :
            d >= today - (IF period = UndefNum THEN DefaultPeriod ELSE period)}

\* One element of the trends array: the sums and the count of a date.
TrendRow(rows, u, d) ==
  [day |-> d, date |-> DateObject(d), total |-> SumsOn(rows, u, d).total,
   foodCount |-> SumsOn(rows, u, d).totalFoods]

\* The dates of the window on which user u has rows.
TrendDays(rows, u, window) == {d \in window : \E r \in rows : r.user_id = u /\ r.log_date = d}

RECURSIVE Ordered(_, _, _, _)
\* The rows of the grouped query over the dates ds, the date chosen by pick first.
Ordered(rows, u, ds, pick) ==
  IF ds = {} THEN <<>>
  ELSE LET d == IF pick = "ASC" THEN CHOOSE x \in ds : \A y \in ds : x <= y
                ELSE CHOOSE x \in ds : \A y \in ds : x >= y
       IN <<TrendRow(rows, u, d)>> \o Ordered(rows, u, ds \ {d}, pick)

\* Faulty variant of TrendsRows: ORDER BY log_date DESC.
TrendsRowsDesc(rows, u, window) == Ordered(rows, u, TrendDays(rows, u, window), "DESC")

\* SELECT log_date, SUM(...), COUNT(*) ... GROUP BY log_date ORDER BY log_date ASC
TrendsRows(rows, u, window) == Ordered(rows, u, TrendDays(rows, u, window), "ASC")

\* The request arrives; the handler awaits the grouped query.
TrendsStart(p, u, startDate, endDate, period, today) ==
  /\ pc[p] = "idle"
  /\ pc' = [pc EXCEPT ![p] = "t_query"]
  /\ req' = [req EXCEPT ![p] = [op |-> "trends", user |-> u,
                                 window |-> TrendWindow(startDate, endDate, period, today)]]
  /\ ov' = OvAtStart(p, FALSE)
  /\ UNCHANGED <<logs, nextId, cacheStore, redisUp, loc, last, rl, rlOut, rlHist, adm, users, uploads>>

\* The query returns and the response is sent.
TrendsQuery(p) ==
  /\ pc[p] = "t_query"
  /\ Finish(p, [Sent(p, "trends", req[p].user, 0, 200, logs, cacheStore, ov) EXCEPT
                  !.storeReads = 1, !.window = req[p].window,
                  !.trend = TrendsRows(logs, req[p].user, req[p].window)])
  /\ ov' = [ov EXCEPT ![p] = NoOv]
  /\ UNCHANGED <<logs, nextId, cacheStore, redisUp, rl, rlOut, rlHist, adm, users, uploads>>

\* ------------------------------------------ calls of the cache functions
\* History: the record of a call of cache.get, cache.set or cache.del.  The
\* try block covers the whole body of each, so nothing is raised to the caller.
Called(op, key) ==
  [NoLast EXCEPT !.op = op, !.key = key, !.raised = FALSE, !.turn = 1 - last.turn]

\* await cache.set(key, value, ttl)
CacheSetCall(key, value, ttl) ==
  /\ cacheStore' = CacheSet(cacheStore, key, value, ttl)
  /\ last' = [Called("cache.set", key) EXCEPT !.value = value, !.ok = CacheOk]
  /\ UNCHANGED <<logs, nextId, redisUp, pc, req, loc, ov, rl, rlOut, rlHist, adm, users, uploads>>

\* await cache.get(key)
CacheGetCall(key) ==
  /\ last' = [Called("cache.get", key) EXCEPT !.got = CacheGet(cacheStore, key)]
  /\ UNCHANGED <<logs, nextId, cacheStore, redisUp, pc, req, loc, ov, rl, rlOut, rlHist, adm,
                 users, uploads>>

\* await cache.del(key)
CacheDelCall(key) ==
  /\ cacheStore' = CacheDel(cacheStore, key)
  /\ last' = [Called("cache.del", key) EXCEPT !.ok = CacheOk]
  /\ UNCHANGED <<logs, nextId, redisUp, pc, req, loc, ov, rl, rlOut, rlHist, adm, users, uploads>>

\* ------------------------------------------------------------------- time
\* Redis after d seconds: every key with an expiry has d seconds less to live
\* and is gone once none is left; a key without expiry (ttl -1) stays.
Elapse(c, d) ==
  LET alive == {k \in DOMAIN c : c[k].ttl < 0 \/ c[k].ttl > d}
  IN [k \in alive |-> IF c[k].ttl < 0 THEN c[k]
                      ELSE [c[k] EXCEPT !.ttl = @ - d, !.age = @ + d]]

\* d seconds pass.
Tick(d) ==
  /\ cacheStore # Elapse(cacheStore, d)
  /\ cacheStore' = Elapse(cacheStore, d)
  /\ UNCHANGED <<logs, nextId, redisUp, pc, req, loc, ov, last, rl, rlOut, rlHist, adm, users, uploads>>

\* d seconds pass, the admissions on record age with the keys.
Pass(d) ==
  /\ cacheStore' = Elapse(cacheStore, d)
  /\ adm' = [k \in CounterKeys |-> Aged(adm[k], d)]
  /\ cacheStore' # cacheStore \/ adm' # adm
  /\ UNCHANGED <<logs, nextId, redisUp, pc, req, loc, ov, last, rl, rlOut, rlHist, users, uploads>>

\* ------------------------------------------------------------ AI routes
\* rateLimit.check(rateLimitKey, limit, window): the limit of each class.
RouteLimit(class) ==
  CASE class = "recognize" -> 10 [] class = "advice" -> 5 [] class = "meal_plan" -> 3
    [] class = "trends" -> 2 [] class = "tips" -> 10

\* rateLimit.check(rateLimitKey, limit, window): the window of each class.
RouteWindow(class) ==
  CASE class \in {"recognize", "advice", "tips"} -> 3600
    [] class \in {"meal_plan", "trends"} -> DaySeconds

\* What a handler awaits, in order, once its check allowed the request.
RouteSteps(class) ==
  CASE class = "recognize" -> <<"ai">>
    [] class = "advice" -> <<"users", "ai", "log">>
    [] class = "meal_plan" -> <<"users", "ai", "log">>
    [] class = "trends" -> <<"users", "history", "ai", "log">>
    [] class = "tips" -> <<"users", "ai">>

\* Locals of an AI handler, with the history of what the request has done.
AiLoc == [step |-> 0, storeReads |-> 0, storeWrites |-> 0, aiCalls |-> 0]

\* History: the response of an AI request of slot p.
AiSent(p, status, retryAfter, remaining, l) ==
  [op |-> "ai", user |-> req[p].user, class |-> req[p].class, status |-> status,
   retryAfter |-> retryAfter, remaining |-> remaining,
   storeReads |-> l.storeReads, storeWrites |-> l.storeWrites, aiCalls |-> l.aiCalls]

\* The requests made so far to the routes that count on the keys ks.
RECURSIVE AiRequests(_)
AiRequests(ks) ==
  IF ks = {} THEN 0
  ELSE LET k == CHOOSE x \in ks : TRUE IN rlHist[k].total + AiRequests(ks \ {k})

\* A request of user u arrives at a route of the class: the handler builds the
\* key and calls rateLimit.check, whose increment returns.
AiStart(p, u, class) ==
  /\ pc[p] = "idle"
  \* request slots are interchangeable: a new request takes the lowest free one.
  /\ \A x \in Procs : x < p => pc[x] # "idle"
  /\ AiRequests(CounterKeys) < MaxAi
  /\ IncrEffect(p, RLKey(class, u), RouteLimit(class), RouteWindow(class))
  /\ pc' = [pc EXCEPT ![p] = "a_check"]
  /\ req' = [req EXCEPT ![p] = [op |-> "ai", user |-> u, class |-> class]]
  /\ loc' = [loc EXCEPT ![p] = AiLoc]
  /\ UNCHANGED <<logs, nextId, redisUp, ov, last, rlOut, adm, users, uploads>>

\* rateLimit.check returns to the handler: if (!rateLimitResult.allowed) the
\* handler answers 429 with retryAfter: rateLimitResult.resetTime.
AiChecked(p) ==
  /\ pc[p] = "a_check"
  /\ rl[p].pc = "ttl"
  /\ redisUp
  /\ rl' = [rl EXCEPT ![p] = RLIdle]
  /\ IF ~CheckResult(p).allowed
     THEN Finish(p, AiSent(p, 429, CheckResult(p).resetTime,
                           IF rl[p].key \in DOMAIN cacheStore /\ cacheStore[rl[p].key].ttl >= 0
                           THEN cacheStore[rl[p].key].ttl ELSE 0, loc[p]))
     ELSE /\ pc' = [pc EXCEPT ![p] = "a_run"]
          /\ loc' = [loc EXCEPT ![p].step = 1]
          /\ UNCHANGED <<req, last>>
  /\ UNCHANGED <<logs, nextId, cacheStore, redisUp, ov, rlOut, rlHist, adm, users, uploads>>

\* The handler's next await returns: the users query, the history query
\* (400 when the user has no food logs), the AI call, or the insert into
\* ai_analysis_logs followed by res.json.
AiStep(p) ==
  /\ pc[p] = "a_run"
  /\ LET steps == RouteSteps(req[p].class)
         kind == steps[loc[p].step]
         l == [loc[p] EXCEPT !.storeReads = IF kind \in {"users", "history"} THEN @ + 1 ELSE @,
                             !.aiCalls = IF kind = "ai" THEN @ + 1 ELSE @,
                             !.storeWrites = IF kind = "log" THEN @ + 1 ELSE @]
     IN IF kind = "users" /\ req[p].user \notin UsersTable
          THEN Finish(p, AiSent(p, 404, 0, 0, l))
        ELSE IF kind = "history" /\ {r \in logs : r.user_id = req[p].user} = {}
          THEN Finish(p, AiSent(p, 400, 0, 0, l))
        ELSE IF loc[p].step = Len(steps)
          THEN Finish(p, AiSent(p, 200, 0, 0, l))
        ELSE /\ loc' = [loc EXCEPT ![p] = [l EXCEPT !.step = @ + 1]]
             /\ UNCHANGED <<pc, req, last>>
  /\ UNCHANGED <<logs, nextId, cacheStore, redisUp, ov, rl, rlOut, rlHist, adm, users, uploads>>

\* -------------------------------------------------- POST /recognize-food
\* fs.unlinkSync(req.file.path)
Unlinked(files, f) == files \ {f}

\* History: the response of a POST /recognize-food request of slot p.
RecSent(p, status) ==
  [NoLast EXCEPT !.op = "recognize", !.user = req[p].user, !.status = status,
                 !.file = req[p].file]

\* A request of user u arrives: upload.single('image') stores the file of the
\* multipart body, if it has one, under a name of its own; then the handler
\* builds the key and calls rateLimit.check, whose increment returns.
RecStart(p, u, hasFile) ==
  /\ pc[p] = "idle"
  /\ \A x \in Procs : x < p => pc[x] # "idle"
  /\ uploads.made < MaxAi
  /\ IncrEffect(p, RLKey("recognize", u), RouteLimit("recognize"), RouteWindow("recognize"))
  /\ uploads' = IF hasFile
                  THEN [made |-> uploads.made + 1, files |-> uploads.files \cup {uploads.made + 1}]
                ELSE [uploads EXCEPT !.made = @ + 1]
  /\ pc' = [pc EXCEPT ![p] = "r_check"]
  /\ req' = [req EXCEPT ![p] = [op |-> "recognize", user |-> u,
                                 file |-> IF hasFile THEN uploads.made + 1 ELSE 0]]
  /\ UNCHANGED <<logs, nextId, redisUp, loc, ov, last, rlOut, adm, users>>

\* rateLimit.check returns to the handler: 429 when it is not allowed, 400
\* when the request has no file; otherwise the file is read and the handler
\* awaits AIService.recognizeFoodFromImage.
RecChecked(p) ==
  /\ pc[p] = "r_check"
  /\ rl[p].pc = "ttl"
  /\ redisUp
  /\ rl' = [rl EXCEPT ![p] = RLIdle]
  /\ IF ~CheckResult(p).allowed
       THEN Finish(p, RecSent(p, 429))
     ELSE IF req[p].file = 0
       THEN Finish(p, RecSent(p, 400))
     ELSE /\ pc' = [pc EXCEPT ![p] = "r_ai"]
          /\ UNCHANGED <<req, loc, last>>
  /\ UNCHANGED <<logs, nextId, cacheStore, redisUp, ov, rlOut, rlHist, adm, users, uploads>>

\* The AI call returns: the file is unlinked and the result sent; or it
\* raises: the catch block unlinks the file if it exists and answers 500.
RecAi(p, succeeds) ==
  /\ pc[p] = "r_ai"
  /\ uploads' = [uploads EXCEPT !.files =
                   IF succeeds \/ req[p].file \in @ THEN Unlinked(@, req[p].file) ELSE @]
  /\ Finish(p, RecSent(p, IF succeeds THEN 200 ELSE 500))
  /\ UNCHANGED <<logs, nextId, cacheStore, redisUp, ov, rl, rlOut, rlHist, adm, users>>

\* ------------------------------------------------------------- requests
DateStrings == {IsoDate(d) : d \in Days}

ManualBody(dateStr) ==
  [foodId |-> UndefNum, customFoodId |-> UndefStr, customFoodName |-> "apple",
   amount |-> 100, unit |-> "g", mealType |-> "lunch", logDate |-> dateStr,
   calories |-> 9500, protein |-> UndefNum, carbs |-> UndefNum, fat |-> UndefNum,
   fiber |-> UndefNum, sugar |-> UndefNum, sodium |-> UndefNum]

ManualBodies(DS) == {ManualBody(ds) : ds \in DS}

LogBodies(dateStr) ==
  {ManualBody(dateStr),
   [ManualBody(dateStr) EXCEPT !.customFoodName = UndefStr, !.customFoodId = "cf1",
                               !.amount = 150, !.calories = UndefNum, !.mealType = "dinner"]}

UpdateBodies ==
  {NoUpdate, [NoUpdate EXCEPT !.calories = 5000], [NoUpdate EXCEPT !.mealType = "snack"]}

\* PUT /log/:id bodies: empty, each key of the schema alone, and keys that are
\* not in the schema but name columns.
AnyUpdateBodies ==
  {NoUpdate, [NoUpdate EXCEPT !.amount = 200], [NoUpdate EXCEPT !.unit = "oz"],
   [NoUpdate EXCEPT !.mealType = "snack"], [NoUpdate EXCEPT !.logTime = "08:00"],
   [NoUpdate EXCEPT !.calories = 5000], [NoUpdate EXCEPT !.user_id = "u2"],
   [NoUpdate EXCEPT !.log_date = IsoDate(2)]}

\* POST /log bodies of every kind of source, valid and not: free text with
\* explicit values, custom food (own, another user's, missing; alone or with
\* a catalog id and explicit values), catalog food (with and without explicit
\* values), no source, a malformed date, amounts of zero and below.
ResolveBodies ==
  LET m == ManualBody(IsoDate(1))
      none == [m EXCEPT !.customFoodName = UndefStr, !.calories = UndefNum, !.mealType = "dinner"]
  IN {m,
      [m EXCEPT !.protein = 1200, !.calories = 0],
      [none EXCEPT !.customFoodId = "cf1"],
      [none EXCEPT !.customFoodId = "cf1", !.amount = 150],
      [none EXCEPT !.customFoodId = "cf1", !.amount = 200],
      [none EXCEPT !.customFoodId = "cf1", !.amount = 150, !.foodId = 1, !.calories = 9900,
                   !.carbs = 700],
      [none EXCEPT !.customFoodId = "cf2"],
      [none EXCEPT !.customFoodId = "cf9"],
      [none EXCEPT !.foodId = 1, !.amount = 150],
      [none EXCEPT !.foodId = 1, !.amount = 150, !.calories = 9900, !.carbs = 700],
      none,
      [m EXCEPT !.logDate = "2024-1-5"],
      [m EXCEPT !.amount = 0],
      [m EXCEPT !.amount = 0 - 100],
      [none EXCEPT !.customFoodId = "cf1", !.amount = 0 - 100]}

\* One step of GET /daily for requests arriving at the slots P from the users
\* U about the dates DS with includeMeals in Incs.
Reading(P, U, DS, Incs) ==
  \/ \E p \in P, u \in U, ds \in DS, inc \in Incs : DailyStart(p, u, ds, inc)
  \/ \E p \in P : DailySum(p)
  \/ \E p \in P : DailySet(p)

\* One step of POST /log, PUT /log/:id or DELETE /log/:id, with log bodies in
\* Bodies and update bodies in Updates.
Writing(P, U, Bodies, Updates) ==
  \/ \E p \in P, u \in U, b \in Bodies : LogStart(p, u, b)
  \/ \E p \in P : LogInsert(p)
  \/ \E p \in P : LogDel(p)
  \/ \E p \in P, u \in U, id \in LogIds, b \in Updates : UpdStart(p, u, id, b)
  \/ \E p \in P : UpdUpdate(p)
  \/ \E p \in P : UpdDel(p)
  \/ \E p \in P, u \in U, id \in LogIds : DelStart(p, u, id)
  \/ \E p \in P : DelDelete(p)
  \/ \E p \in P : DelDel(p)

\* Requests of one user about every date, handled one at a time.
Next ==
  \/ Reading({1}, {"u1"}, DateStrings, BOOLEAN)
  \/ DailyMeals(1)
  \/ Writing({1}, {"u1"}, ManualBodies(DateStrings), UpdateBodies)

Spec == Init /\ [][Next]_vars

\* Reads and logs of one user about every date, handled one at a time.
NextLog ==
  \/ Reading({1}, {"u1"}, DateStrings, BOOLEAN)
  \/ DailyMeals(1)
  \/ \E b \in ManualBodies(DateStrings) : LogStart(1, "u1", b)
  \/ LogInsert(1)
  \/ LogDel(1)

SpecLog == Init /\ [][NextLog]_vars

\* One user logging an entry and then updating it with every kind of body,
\* two users reading, one request at a time.
NextUpdate ==
  \/ Reading({1}, Users, DateStrings, {FALSE})
  \/ (logs = {} /\ LogStart(1, "u1", ManualBody(IsoDate(1))))
  \/ LogInsert(1)
  \/ LogDel(1)
  \/ \E id \in LogIds, b \in AnyUpdateBodies : UpdStart(1, "u1", id, b)
  \/ UpdUpdate(1)
  \/ UpdDel(1)

SpecUpdate == Init /\ [][NextUpdate]_vars

\* Rows of users LEFT JOIN user_preferences: nothing set; profile data only;
\* a calorie goal with and without profile data; goals of 0; a weight of 0;
\* a protein goal below what gets logged; every goal set.
Profiles ==
  {NoProfile,
   [NoProfile EXCEPT !.weight = 6000, !.target_calories = 200000],
   [NoProfile EXCEPT !.calorie_goal = 180000, !.target_calories = 200000],
   [NoProfile EXCEPT !.calorie_goal = 180000],
   [NoProfile EXCEPT !.calorie_goal = 0],
   [NoProfile EXCEPT !.protein_goal = 0],
   [NoProfile EXCEPT !.weight = 0],
   [NoProfile EXCEPT !.protein_goal = 500],
   [weight |-> 6000, target_calories |-> 200000, calorie_goal |-> 5000,
    protein_goal |-> 12000, carb_goal |-> 30000, fat_goal |-> 7000, fiber_goal |-> 3000,
    sugar_goal |-> 4000, sodium_goal |-> 200000]}

\* POST /log bodies with different payloads on one date.
TargetBodies ==
  {ManualBody(IsoDate(1)),
   [ManualBody(IsoDate(1)) EXCEPT !.protein = 1200, !.calories = 0],
   [ManualBody(IsoDate(1)) EXCEPT !.customFoodName = UndefStr, !.customFoodId = "cf1",
                                  !.amount = 150, !.calories = UndefNum]}

\* The user's row in the users table is any of Profiles.
InitTargets ==
  \E row \in Profiles : InitWith([u \in UsersTable |-> IF u = "u1" THEN row ELSE NoProfile])

\* One user with any profile logging and reading a date, one request at a time.
NextTargets ==
  \/ Reading({1}, {"u1"}, {IsoDate(1)}, {FALSE})
  \/ \E b \in TargetBodies : LogStart(1, "u1", b)
  \/ LogInsert(1)
  \/ LogDel(1)

SpecTargets == InitTargets /\ [][NextTargets]_vars

\* The PUT /log/:id body that changes the amount.
AmountUpdate == {[NoUpdate EXCEPT !.amount = 200]}

\* Two users logging, updating the amount, deleting and reading, one request
\* at a time.
NextOwner ==
  \/ Reading({1}, Users, {IsoDate(1)}, {FALSE})
  \/ Writing({1}, Users, {ManualBody(IsoDate(1))}, AmountUpdate)

SpecOwner == Init /\ [][NextOwner]_vars

\* A stored row of user u on day d with the given calories, logged as free text.
StoredRow(id, u, d, calories) ==
  NewRow(id, u, ManualBody(IsoDate(d)), [Zero EXCEPT !.calories = calories])

\* Stores a week is summed over: empty; three days of 1800, 2000 and 2200
\* kcal; entries in two consecutive weeks; two days whose mean is not whole;
\* two entries on one day and another user's entry.
WeekLogs ==
  {{},
   {StoredRow(1, "u1", 1, 180000), StoredRow(2, "u1", 2, 200000),
    StoredRow(3, "u1", 3, 220000)},
   {StoredRow(1, "u1", 2, 9500), StoredRow(2, "u1", 8, 10000)},
   {StoredRow(1, "u1", 1, 150), StoredRow(2, "u1", 2, 200)},
   {StoredRow(1, "u1", 1, 9500), StoredRow(2, "u1", 1, 500), StoredRow(3, "u2", 2, 7000)}}

\* The weekStart values of the queries: the days as dates, and none.
WeekStarts == DateStrings \cup {UndefStr}

InitWeekly == \E rows \in WeekLogs : InitStore([u \in UsersTable |-> NoProfile], rows)

\* One step of GET /weekly-summary at slot p for user u, today being any day.
Weekly(p, u) ==
  \/ \E ws \in WeekStarts, today \in Days : WeeklyStart(p, u, StartDate(ws, today))
  \/ WeeklyQuery(p)
  \/ WeeklySet(p)

\* The PUT /log/:id body that changes the calories column.
CaloriesUpdate == {[NoUpdate EXCEPT !.calories = 5000]}

\* Weekly summaries of one user over the stored weeks, between logs, updates
\* and deletions of entries, handled one at a time.
NextWeekly ==
  \/ Weekly(1, "u1")
  \/ Writing({1}, {"u1"}, {ManualBody(IsoDate(1))}, CaloriesUpdate)

SpecWeekly == InitWeekly /\ [][NextWeekly]_vars

\* Values the routes pass to cache.set: the daily summary of a day without
\* entries, of a day with an entry for a user whose protein goal is 0 (the
\* protein percentage is NaN), the weekly summary of a week without entries
\* and of a week with entries on three days.
CacheValues ==
  {DailyResponse(IsoDate(1), SumsOn({}, "u1", 1), FALSE, NoMeals, NoProfile),
   DailyResponse(IsoDate(1), SumsOn({StoredRow(1, "u1", 1, 9500)}, "u1", 1), FALSE, NoMeals,
                 [NoProfile EXCEPT !.protein_goal = 0]),
   WeeklyResponse(IsoDate(1), {}),
   WeeklyResponse(IsoDate(1),
                  WeeklyRows({StoredRow(1, "u1", 1, 180000), StoredRow(2, "u1", 2, 200000),
                              StoredRow(3, "u1", 3, 220000)}, "u1", 1))}

\* The keys of the calls.
CacheKeys == {DailyKey("u1", IsoDate(1)), WeeklyKey("u1", IsoDate(1))}

\* Calls of cache.set, cache.get and cache.del from any caller, while the
\* Redis client fails and recovers at any moment and time passes.
NextCache ==
  \/ \E k \in CacheKeys, v \in CacheValues : CacheSetCall(k, v, DailyTTL)
  \/ \E k \in CacheKeys : CacheGetCall(k)
  \/ \E k \in CacheKeys : CacheDelCall(k)
  \/ RedisFails
  \/ RedisRecovers
  \/ Tick(TickUnit)

SpecCache == Init /\ [][NextCache]_vars

\* Daily summaries and logs of one user about one date, handled one at a
\* time, while the Redis client fails and recovers at any moment.
NextDegraded ==
  \/ Reading({1}, {"u1"}, {IsoDate(1)}, {FALSE})
  \/ LogStart(1, "u1", ManualBody(IsoDate(1)))
  \/ LogInsert(1)
  \/ LogDel(1)
  \/ RedisFails
  \/ RedisRecovers

SpecDegraded == Init /\ [][NextDegraded]_vars

\* The store with one entry of user u1.
OneEntry == {StoredRow(1, "u1", 1, 9500)}

InitRace == InitStore([u \in UsersTable |-> NoProfile], OneEntry)

\* Updates and deletions of the entries by their owner, handled concurrently,
\* and the logging of a further entry.
NextRace ==
  \/ \E p \in Procs, id \in LogIds, b \in CaloriesUpdate : UpdStart(p, "u1", id, b)
  \/ \E p \in Procs : UpdUpdate(p)
  \/ \E p \in Procs : UpdDel(p)
  \/ \E p \in Procs, id \in LogIds : DelStart(p, "u1", id)
  \/ \E p \in Procs : DelDelete(p)
  \/ \E p \in Procs : DelDel(p)
  \/ \E p \in Procs : LogStart(p, "u1", ManualBody(IsoDate(1)))
  \/ \E p \in Procs : LogInsert(p)
  \/ \E p \in Procs : LogDel(p)

SpecRace == InitRace /\ [][NextRace]_vars

\* Redis with the recognize counter of u1 absent, or at 9 or 10 of the 10
\* requests of an hour that started 60 seconds ago.
RecognizeCounters ==
  {EmptyCache} \cup
  {[k \in {RLKey("recognize", "u1")} |-> [val |-> n, ttl |-> 3600 - TickUnit, age |-> TickUnit]] :
     n \in {9, 10}}

InitUploads ==
  \E keys \in RecognizeCounters : InitState([u \in UsersTable |-> NoProfile], {}, keys)

\* Concurrent image uploads of one user, with and without a file, whose AI
\* call succeeds or fails.
NextUploads ==
  \/ \E p \in Procs, hasFile \in BOOLEAN : RecStart(p, "u1", hasFile)
  \/ \E p \in Procs : RLExpire(p)
  \/ \E p \in Procs : RecChecked(p)
  \/ \E p \in Procs, succeeds \in BOOLEAN : RecAi(p, succeeds)

SpecUploads == InitUploads /\ [][NextUploads]_vars

\* The period values of the queries: none, no day, one day.
Periods == {UndefNum, 0, 1}

\* The startDate and endDate values of the queries: the days as dates, the
\* last day of the second week, and none.
TrendDates == DateStrings \cup {IsoDate(14), UndefStr}

\* Trends of two users over the stored weeks, between daily summaries and logs
\* of the first day, handled one at a time.
NextTrends ==
  \/ \E u \in Users, sd \in TrendDates, ed \in TrendDates, period \in Periods, today \in Days :
        TrendsStart(1, u, sd, ed, period, today)
  \/ TrendsQuery(1)
  \/ Reading({1}, {"u1"}, {IsoDate(1)}, {FALSE})
  \/ LogStart(1, "u1", ManualBody(IsoDate(1)))
  \/ LogInsert(1)
  \/ LogDel(1)

SpecTrends == InitWeekly /\ [][NextTrends]_vars

\* POST /log requests of one user with every kind of body, and reads of the
\* day's summary, handled one at a time.
NextResolve ==
  \/ Reading({1}, {"u1"}, {IsoDate(1)}, {FALSE})
  \/ \E b \in ResolveBodies : LogStart(1, "u1", b)
  \/ LogInsert(1)
  \/ LogDel(1)

SpecResolve == Init /\ [][NextResolve]_vars

\* Requests of one user about one date, handled concurrently; reads ask for
\* the totals only and updates change the calories column.
NextConc ==
  \/ Reading(Procs, {"u1"}, {IsoDate(1)}, {FALSE})
  \/ Writing(Procs, {"u1"}, ManualBodies({IsoDate(1)}), {[NoUpdate EXCEPT !.calories = 5000]})

SpecConc == Init /\ [][NextConc]_vars

\* Reads of one user about one date and week, handled one at a time, while
\* time passes in steps of TickUnit seconds.
NextTTL ==
  \/ Reading({1}, {"u1"}, {IsoDate(1)}, BOOLEAN)
  \/ DailyMeals(1)
  \/ \E u \in {"u1"}, ds \in {IsoDate(1)} : WeeklyStart(1, u, ds)
  \/ WeeklyQuery(1)
  \/ WeeklySet(1)
  \/ Tick(TickUnit)

SpecTTL == Init /\ [][NextTTL]_vars

\* Concurrent rateLimit.check calls on one key, while time passes in steps of
\* RLTick seconds.
NextRL ==
  \/ \E c \in Procs, k \in RLKeys : RLIncr(c, k, RLLimit, RLWindow)
  \/ \E c \in Procs : RLExpire(c)
  \/ \E c \in Procs : RLReturn(c)
  \/ Tick(RLTick)

SpecRL == Init /\ [][NextRL]_vars

\* Concurrent rateLimit.check calls on one key with limit TightLimit, while
\* time passes in steps of RLTick seconds and the admissions are timed.
NextRLTime ==
  \/ \E c \in Procs, k \in RLKeys : TimedIncr(c, k, TightLimit, RLWindow)
  \/ \E c \in Procs : RLExpire(c)
  \/ \E c \in Procs : RLReturn(c)
  \/ Pass(RLTick)

SpecRLTime == Init /\ [][NextRLTime]_vars

\* Concurrent rateLimit.check calls on one key while the Redis client fails
\* and recovers at any moment.
NextRLFail ==
  \/ \E c \in Procs, k \in RLKeys : RLIncr(c, k, RLLimit, RLWindow)
  \/ \E c \in Procs : RLExpire(c)
  \/ \E c \in Procs : RLReturn(c)
  \/ \E c \in Procs, k \in RLKeys : RLFailStart(c, k, RLLimit, RLWindow)
  \/ \E c \in Procs : RLFail(c)
  \/ RedisFails
  \/ RedisRecovers

SpecRLFail == Init /\ [][NextRLFail]_vars

\* The classes and users whose requests the AI routes are run with.
AiClasses == {"trends", "meal_plan"}

\* Concurrent requests of one user to the AI routes, while time passes a day
\* at a time.
NextAI ==
  \/ \E p \in Procs, u \in {"u1"}, class \in AiClasses : AiStart(p, u, class)
  \/ \E p \in Procs : RLExpire(p)
  \/ \E p \in Procs : AiChecked(p)
  \/ \E p \in Procs : AiStep(p)
  \/ Tick(DaySeconds)

SpecAI == Init /\ [][NextAI]_vars

\* Concurrent requests of two users to the AI routes of two classes.
NextKeys ==
  \/ \E p \in Procs, u \in Users, class \in AiClasses : AiStart(p, u, class)
  \/ \E p \in Procs : RLExpire(p)
  \/ \E p \in Procs : AiChecked(p)
  \/ \E p \in Procs : AiStep(p)

SpecKeys == Init /\ [][NextKeys]_vars

\* The keys GET /daily reads and populates.
DailyKeys == {DailyKey(u, IsoDate(d)) : u \in Users, d \in 1..31}

\* The keys GET /weekly-summary reads and populates.
WeeklyKeys == {WeeklyKey(u, IsoDate(d)) : u \in Users, d \in 1..31}

\* ================================================================ claims
DailySent == last.op = "daily" /\ last.status = 200

WriteSent == last.op \in Writes /\ Ok(last)

\* C1: with nothing else in flight, a dailySummary(U, D, includeMeals=false)
\* that follows a successful logEntry(U, D) made while the daily key of (U, D)
\* held a value is computed from the store (its totals and totalFoods are the
\* store's, new entry included) and is not the cached value.
C1_ReadAfterLogIsRecomputed ==
  (DailySent /\ ~last.includeMeals /\ last.afterLog) => (last.fresh /\ ~last.fromCache)

C1_Witness ==
  DailySent /\ ~last.includeMeals /\ last.afterLog /\ last.fresh /\ last.storeReads = 2

\* C2: a dailySummary(U, D) during which no write was in flight (so every
\* write made so far had returned its response when the read started) reports
\* the totals of the store, whatever reads and writes were interleaved before.
C2_ReadAfterWritesIsFresh == (DailySent /\ ~last.ovW) => last.fresh

\* C3: the key a successful log, update or delete of an entry of (U, D) deletes
\* is the key dailySummary(U, D) reads and populates, and that key is absent
\* when the write's response is sent.
C3_WriteDeletesTheReadKey ==
  WriteSent => (last.delKey = DailyKey(last.user, IsoDate(last.day)) /\ last.keyAbsent)

\* C4: when two successful writes of the same user and date overlapped and no
\* read was in flight during either, the daily key is absent once both have
\* responded and nothing else is in flight.
C4_KeyAbsentAfterTwoWrites ==
  (WriteSent /\ last.afterWrite /\ last.ovW /\ ~last.ovR /\ last.othersIdle) => last.keyAbsent

\* C5: no value under a daily cache key carries the per-meal breakdown, and no
\* dailySummary response with includeMeals=false carries one.
C5_MealsNeverCached ==
  /\ \A k \in DOMAIN cacheStore \cap DailyKeys : ~cacheStore[k].val.hasMeals
  /\ (DailySent /\ ~last.includeMeals) => ~last.hasMeals

\* C6: a dailySummary that hits the cache with includeMeals=false sends the
\* cached value and makes no store query; one with includeMeals=true is never
\* served from the cache: it makes the users, sums and meals queries and sends
\* the store's totals with the meals, key present or not.
C6_HitServesCacheMealsRecompute ==
  DailySent =>
    /\ (last.hit /\ ~last.includeMeals) =>
         (last.fromCache /\ last.sameAsCached /\ last.storeReads = 0)
    /\ last.includeMeals =>
         (~last.fromCache /\ last.storeReads = 3 /\ last.hasMeals /\ last.fresh)

C6_Witness == DailySent /\ last.hit /\ last.includeMeals /\ last.storeReads = 3

\* C7: a cached daily aggregate is never sent more than 300 seconds after it
\* was stored and a cached weekly aggregate never more than 3600 seconds after:
\* every key was given exactly that time-to-live when populated and nothing
\* has extended it since.
C7_CachedValuesExpire ==
  /\ (last.op = "daily" /\ last.fromCache) => last.age <= 300
  /\ (last.op = "weekly" /\ last.fromCache) => last.age <= 3600
  /\ \A k \in DOMAIN cacheStore \cap DailyKeys : cacheStore[k].ttl + cacheStore[k].age = 300
  /\ \A k \in DOMAIN cacheStore \cap WeeklyKeys : cacheStore[k].ttl + cacheStore[k].age = 3600

C7_Witness ==
  /\ last.op = "daily" /\ last.fromCache /\ last.age > 0 /\ last.age + TickUnit >= 300
  /\ \E k \in DOMAIN cacheStore \cap WeeklyKeys : cacheStore[k].age > 300

\* The results returned for the checks of window w of key k.
ResultsIn(k, w) == {r \in rlOut : r.key = k /\ r.win = w}

\* C8: a check is allowed if and only if the counter value after its increment
\* is at most the limit, and the count it returns is the number of checks made
\* on the key since the window started: the first `limit` checks of a window
\* are admitted and the next one is rejected.
C8_AllowedIffWithinLimit ==
  \A r \in rlOut :
    /\ r.allowed <=> r.count <= r.limit
    /\ r.count = r.nth
    /\ r.nth <= RLLimit => r.allowed
    /\ r.nth = RLLimit + 1 => ~r.allowed

\* Consecutive checks 1 .. limit + 1 of one window have all returned.
C8_Witness ==
  \E k \in RLKeys :
    /\ \A n \in 1..(RLLimit + 1) :
         \E r \in ResultsIn(k, 1) : r.nth = n /\ ~r.overlap /\ (r.allowed <=> n <= RLLimit)
    /\ \A x \in Procs : rl[x].pc = "idle"

\* C9: whatever the interleaving of the increment, expire and ttl steps of
\* concurrent checks on one key, at most `limit` of the checks of one window
\* are allowed.
C9_AtMostLimitAllowedPerWindow ==
  \A k \in RLKeys : \A w \in 1..rlHist[k].win :
    Cardinality({r \in ResultsIn(k, w) : r.allowed}) <= RLLimit

\* A window in which overlapping checks raced for the last admission: `limit`
\* were allowed and an overlapping one was rejected.
C9_Witness ==
  \E k \in RLKeys : \E w \in 1..rlHist[k].win :
    /\ Cardinality({r \in ResultsIn(k, w) : r.allowed}) = RLLimit
    /\ \E r \in ResultsIn(k, w) : r.overlap /\ ~r.allowed
    /\ \E r \in ResultsIn(k, w) : r.overlap /\ r.allowed /\ r.count = RLLimit

\* C10: the expiry is set exactly by the check whose post-increment value is
\* 1: once per window, so the counter always expires windowSeconds after that
\* call, no later check extends it, and the first check after the key expired
\* counts 1 in a new window.
C10_ExpirySetOnlyByFirstCheck ==
  /\ \A r \in rlOut : (r.expired <=> r.count = 1) /\ (r.nth = 1 <=> r.count = 1)
  /\ \A k \in RLKeys : rlHist[k].expires <= 1
  /\ \A k \in RLKeys \cap DOMAIN cacheStore :
       cacheStore[k].ttl >= 0 => cacheStore[k].ttl + cacheStore[k].age = RLWindow

\* A second window was started by a check counting 1, after a first window in
\* which a rejected check left the expiry alone.
C10_Witness ==
  \E k \in RLKeys :
    /\ \E r \in ResultsIn(k, 2) : r.count = 1 /\ r.expired
    /\ \E r \in ResultsIn(k, 1) : ~r.allowed /\ ~r.expired
    /\ \E r \in ResultsIn(k, 1) : r.count = 2 /\ ~r.expired /\ r.resetTime < RLWindow

\* C11: in every interval of at most windowSeconds, at most 2 * limit checks
\* of a key are allowed (a check counts at the moment of its increment): the
\* admissions of the last windowSeconds, interval ends included, never number
\* more than twice the limit.
C11_AtMostTwiceLimitPerInterval ==
  \A k \in RLKeys : \A i \in 1..Len(adm[k]) : Len(adm[k]) <= 2 * adm[k][i].limit

\* Twice the limit was admitted within one window length, across the end of
\* the first window.
C11_Witness ==
  \E k \in RLKeys :
    /\ Len(adm[k]) = 2 * TightLimit
    /\ rlHist[k].win = 2
    /\ \E i \in 1..Len(adm[k]) : adm[k][i].age > 0
    /\ \A x \in Procs : rl[x].pc = "idle"

\* C12: the reset value a check returns is the remaining time-to-live of the
\* counter key, 0 when the key has no expiry, and never negative.
C12_ResetNeverNegative ==
  \A r \in rlOut : r.resetTime >= 0 /\ r.resetTime <= r.window

\* C13: a check one of whose storage steps raised (client not initialised,
\* increment, expire or ttl) returns to its caller, with allowed = true.
C13_FailOpen ==
  \A r \in rlOut : r.raisedAt # "none" => (r.allowed /\ r.count = 0 /\ r.resetTime = 0)

\* Checks have returned after a failure of each storage step, one of them
\* when the counter was already over the limit.
C13_Witness ==
  /\ \A step \in {"incr", "expire", "ttl"} : \E r \in rlOut : r.raisedAt = step /\ r.allowed
  /\ \E r \in rlOut : r.raisedAt = "ttl" /\ r.nth > r.limit

\* The counter of (user u, class cl) in the store c: its value and expiry.
CounterIn(c, u, cl) ==
  IF RLKey(cl, u) \in DOMAIN c
  THEN [val |-> c[RLKey(cl, u)].val, ttl |-> c[RLKey(cl, u)].ttl]
  ELSE [val |-> 0, ttl |-> 0 - 2]

\* C14: counters are isolated per user and per class: the count and the
\* expiry of the counter of (U, A) change only in a step of the check of a
\* request of user U to class A, or as time passes.
C14_CountersIsolated ==
  [][\A u \in Users, cl \in Classes :
       CounterIn(cacheStore', u, cl) # CounterIn(cacheStore, u, cl) =>
         \/ rl' = rl
         \/ \E p \in Procs : /\ rl'[p] # rl[p]
                              /\ req'[p].op = "ai"
                              /\ req'[p].user = u /\ req'[p].class = cl]_vars

\* Two users and two classes have been counted separately.
C14_Witness ==
  /\ CounterIn(cacheStore, "u1", "trends").val = 2
  /\ CounterIn(cacheStore, "u2", "trends").val = 1
  /\ CounterIn(cacheStore, "u1", "meal_plan").val = 1
  /\ CounterIn(cacheStore, "u2", "meal_plan").val = 0

\* C15: the handler does nothing before its check has returned, and a request
\* whose check returned allowed = false is answered 429 with the remaining
\* time of the counter's window, without any AI call or store read or write.
C15_RejectedBeforeAnyWork ==
  /\ \A p \in Procs : pc[p] = "a_check" =>
       (loc[p].aiCalls = 0 /\ loc[p].storeReads = 0 /\ loc[p].storeWrites = 0)
  /\ (last.op = "ai" /\ last.status = 429) =>
       /\ last.aiCalls = 0 /\ last.storeReads = 0 /\ last.storeWrites = 0
       /\ last.retryAfter = last.remaining

\* A POST /log request was answered 201.
LogSent == last.op = "log" /\ last.status = 201

\* C16: a logged payload comes from exactly one source: from the custom food
\* alone when a custom-food id is present, else from the catalog rows alone
\* when a catalog id is present, else it is the explicit values, 0 where omitted.
C16_OneSourceInOrder ==
  LogSent =>
    LET b == last.body
        n == last.nutrition
    IN IF TruthyStr(b.customFoodId)
         THEN \E c \in CustomFoods :
                /\ c.id = b.customFoodId /\ c.user_id = last.user
                /\ \A f \in Fields : n[f] * Scale = Or0(c[f]) * b.amount
       ELSE IF Truthy(b.foodId)
         THEN \A f \in Fields :
                \/ \E r \in FoodNutrients : /\ r.food_id = b.foodId /\ r.name = NutrientName(f)
                                             /\ n[f] * Scale = r.amount * b.amount
                \/ /\ ~\E r \in FoodNutrients : r.food_id = b.foodId /\ r.name = NutrientName(f)
                   /\ n[f] = 0
       ELSE \A f \in Fields : n[f] = IF b[f] = UndefNum THEN 0 ELSE b[f]

\* C17: in a payload logged by catalog id, a field without a catalog row is 0
\* whatever explicit values the request carried, and a field with a row is the
\* row's amount times the logged amount.
C17_UnmatchedCatalogFieldsAreZero ==
  (LogSent /\ ~TruthyStr(last.body.customFoodId) /\ Truthy(last.body.foodId)) =>
    \A f \in Fields :
      LET rows == {r \in FoodNutrients :
                     r.food_id = last.body.foodId /\ r.name = NutrientName(f)}
      IN /\ rows = {} => last.nutrition[f] = 0
         /\ \A r \in rows : last.nutrition[f] * Scale = r.amount * last.body.amount

\* The custom foods that user u owns under the id.
OwnedCustomFoods(id, u) == {c \in CustomFoods : c.id = id /\ c.user_id = u}

\* C18: a log request that passes validation and names a custom food that
\* does not exist or is another user's is answered 404 after the lookup, and
\* the step that answers 404 leaves the store and the cache as they were.
C18_MissingCustomFoodChangesNothing ==
  /\ [](( /\ last.op = "log" /\ DateRegexOk(last.body.logDate)
          /\ TruthyStr(last.body.customFoodId)
          /\ OwnedCustomFoods(last.body.customFoodId, last.user) = {})
        => (last.status = 404 /\ last.storeReads = 1))
  /\ [][(pc[1] = "idle" /\ pc'[1] = "idle" /\ last'.op = "log" /\ last'.status = 404)
        => (logs' = logs /\ nextId' = nextId /\ cacheStore' = cacheStore)]_vars

\* Another user's custom food was refused while the user had an entry and a
\* cached summary.
C18_Witness ==
  /\ last.op = "log" /\ last.status = 404 /\ last.body.customFoodId = "cf2"
  /\ logs # {}
  /\ DailyKey("u1", IsoDate(1)) \in DOMAIN cacheStore

\* C19: a payload resolved from a custom food is, field by field, the
\* per-serving value (0 when unset) times the amount: twice the amount gives
\* twice the fields, and 100 kcal per serving at amount 1.5 gives 150 kcal.
C19_CustomResolutionIsLinear ==
  /\ (LogSent /\ TruthyStr(last.body.customFoodId)) =>
       \E c \in OwnedCustomFoods(last.body.customFoodId, last.user) :
         \A f \in Fields :
           last.nutrition[f] * Scale = (IF c[f] = UndefNum THEN 0 ELSE c[f]) * last.body.amount
  /\ (LogSent /\ TruthyStr(last.body.customFoodId)) =>
       \A c \in OwnedCustomFoods(last.body.customFoodId, last.user), f \in Fields :
         CustomNutrition(c, 2 * last.body.amount)[f] = 2 * last.nutrition[f]
  /\ (LogSent /\ last.body.customFoodId = "cf1" /\ last.body.amount = 150)
       => last.nutrition.calories = 15000

\* The 100 kcal food was logged at amount 1.5 after it was logged at amount 2.
C19_Witness ==
  /\ LogSent /\ last.body.customFoodId = "cf1" /\ last.body.amount = 150
  /\ last.body.foodId = UndefNum
  /\ last.nutrition.calories = 15000 /\ last.nutrition.protein = 750
  /\ last.nutrition.fiber = 0
  /\ \E r \in logs : r.amount = 200 /\ r.calories = 20000

\* C20: a log request with a malformed date, without any source, or with an
\* amount of zero or less is answered 400 before any lookup.
C20_InvalidRequestsRejected ==
  (/\ last.op = "log"
   /\ \/ ~DateRegexOk(last.body.logDate)
      \/ NoSource(last.body)
      \/ last.body.amount <= 0)
  => (last.status = 400 /\ last.storeReads = 0)

\* C21: every field of every stored entry's nutrient payload is at least 0,
\* and so is every total a daily summary reports.
C21_StoredPayloadNonNegative ==
  /\ \A r \in logs : \A f \in Fields : r[f] >= 0
  /\ DailySent => \A f \in Fields : last.sent.total[f] >= 0

\* A PUT /log/:id request was answered 200.
UpdateSent == last.op = "update" /\ last.status = 200

\* C22: after an update that changes the amount the entry's payload is the
\* payload for the new amount (the old payload scaled by new / old amount);
\* after an update that leaves the amount alone the payload is as before.
C22_PayloadFollowsAmount ==
  UpdateSent =>
    IF last.ubody.amount # UndefNum
      THEN \A f \in Fields :
             last.after[f] * last.before.amount = last.before[f] * last.ubody.amount
    ELSE \A f \in Fields : last.after[f] = last.before[f]

\* The keys of a PUT /log/:id body that the interface lets a caller change.
MutableKeys == {"amount", "unit", "mealType", "logTime"}

\* C23: an update writes no key outside amount, unit, mealType and logTime,
\* and leaves the entry's id, owner, date, source reference and, unless the
\* amount is changed, its payload as they were.
C23_UpdateChangesOnlyFourFields ==
  UpdateSent =>
    /\ UpdateKeys(last.ubody) \subseteq MutableKeys
    /\ \A c \in {"id", "user_id", "log_date", "food_id", "custom_food_name"} :
         last.after[c] = last.before[c]
    /\ last.ubody.amount = UndefNum => \A f \in Fields : last.after[f] = last.before[f]

\* The stored entries with the id that belong to user u.
EntriesOf(id, u) == {r \in logs : r.id = id /\ r.user_id = u}

\* C24: an update or delete of an entry id that does not exist or is another
\* user's is answered 404 and that step changes neither the store nor the
\* cache; an update or delete that succeeds acted on the caller's own entry,
\* and no step of such a request touches an entry of another user.
C24_OnlyOwnEntriesChange ==
  /\ []((last.op \in {"update", "delete"} /\ last.status = 200)
        => (last.before.id = last.id /\ last.before.user_id = last.user))
  /\ [][(pc[1] = "idle" /\ pc'[1] = "idle" /\ last'.op \in {"update", "delete"})
        => /\ EntriesOf(last'.id, last'.user) = {} <=> last'.status = 404
           /\ last'.status = 404 => (logs' = logs /\ cacheStore' = cacheStore)]_vars
  /\ [][\A r \in logs :
          (pc[1] # "idle" /\ req[1].op \in {"update", "delete"} /\ r.user_id # req[1].user)
            => r \in logs']_vars

\* Another user's entry was asked to be updated while that user's summary was
\* cached: the request was refused and the entry and the cached summary are there.
C24_Witness ==
  /\ last.op = "update" /\ last.status = 404 /\ last.user = "u2"
  /\ \E r \in logs : r.id = last.id /\ r.user_id = "u1" /\ r.amount = 100
  /\ DailyKey("u1", IsoDate(1)) \in DOMAIN cacheStore
  /\ \E r \in logs : r.user_id = "u2"

\* The quotients a and b are equal.
SameRat(a, b) == a.n * b.d = b.n * a.d

\* No goal column of the row is set.
NoGoals(u) == \A f \in Fields : u[GoalColumn(f)] = UndefNum

\* C25: an explicit goal, when set, is the target; with no goals, weight 60
\* and targetCalories 2000 the targets are protein 96, carbs 225 and fat
\* 2000 x 0.25 / 9; with no goals and no profile data the calorie target is 2000.
C25_TargetFallbackChain ==
  DailySent =>
    LET u == users[last.user]
        t == last.sent.targets
    IN /\ \A f \in Fields :
            u[GoalColumn(f)] # UndefNum => SameRat(t[f], Rat(u[GoalColumn(f)], 1))
       /\ (NoGoals(u) /\ u.weight = 60 * Scale /\ u.target_calories = 2000 * Scale)
            => /\ SameRat(t.protein, Rat(96 * Scale, 1))
               /\ SameRat(t.carbs, Rat(225 * Scale, 1))
               /\ SameRat(t.fat, Rat(2000 * Scale * 25, 900))
       /\ (NoGoals(u) /\ u.weight = UndefNum /\ u.target_calories = UndefNum)
            => SameRat(t.calories, Rat(2000 * Scale, 1))

\* C26: without an explicit carb goal the carbs target is 45% of the reported
\* calorie target divided by 4, and without an explicit fat goal the fat
\* target is 25% of the reported calorie target divided by 9.
C26_MacrosFromReportedCalorieTarget ==
  DailySent =>
    LET u == users[last.user]
        t == last.sent.targets
    IN /\ u.carb_goal = UndefNum => SameRat(t.carbs, Rat(t.calories.n * 45, t.calories.d * 400))
       /\ u.fat_goal = UndefNum => SameRat(t.fat, Rat(t.calories.n * 25, t.calories.d * 900))

\* q is the quotient a / b (b > 0) rounded to the nearest integer, halves upwards.
IsRounded(q, a, b) == 2 * (a - q * b) < b /\ 2 * (a - q * b) >= 0 - b

\* C27: each percentage of a daily summary is round(100 x total / target); a
\* field whose target is 0 has no percentage, which happens only for an
\* explicit goal of 0; total 150 of target 2000 gives 8.
C27_PercentagesRoundedOrOmitted ==
  DailySent =>
    LET b == last.sent
    IN /\ \A f \in Fields :
            IF b.targets[f].n = 0
              THEN f \notin DOMAIN b.percentages /\ users[last.user][GoalColumn(f)] = 0
            ELSE /\ f \in DOMAIN b.percentages
                 /\ IsRounded(b.percentages[f], 100 * b.total[f] * b.targets[f].d,
                              b.targets[f].n)
       /\ (b.total.calories = 150 * Scale /\ SameRat(b.targets.calories, Rat(2000 * Scale, 1)))
            => b.percentages.calories = 8

\* C28: in every daily summary each remaining value is at least 0, is 0 when
\* the total has reached the target, and otherwise adds up with the total to
\* the target; target 2000 and total 150 leave 1850.
C28_RemainingIsClampedDifference ==
  DailySent =>
    LET b == last.sent
    IN /\ \A f \in Fields :
            LET t == b.targets[f]
                r == b.remaining[f]
            IN /\ r.n >= 0 /\ r.d > 0
               /\ b.total[f] * t.d >= t.n => r.n = 0
               /\ b.total[f] * t.d < t.n
                    => SameRat(Rat(r.n + b.total[f] * r.d, r.d), t)
       /\ (b.total.calories = 150 * Scale /\ SameRat(b.targets.calories, Rat(2000 * Scale, 1)))
            => SameRat(b.remaining.calories, Rat(1850 * Scale, 1))

\* A summary computed from the store: 150 kcal of a 2000 kcal target leave
\* 1850, and 7.5 g of protein against a goal of 5 g leave 0.
C28_Witness ==
  /\ DailySent /\ ~last.fromCache
  /\ last.sent.total.calories = 150 * Scale
  /\ last.sent.remaining.calories = Rat(1850 * Scale, 1)
  /\ last.sent.total.protein = 750 /\ last.sent.targets.protein = Rat(500, 1)
  /\ last.sent.remaining.protein = Rat(0, 1)

\* The cached daily summaries of user u.
CachedSummaries(c, u) ==
  [k \in {DailyKey(u, IsoDate(d)) : d \in 1..31} \cap DOMAIN c |-> c[k].val]

\* C29: a summary computed on a miss reports the sums and the count of exactly
\* the stored entries of the requesting user on the requested date, and no
\* step of a write by one user changes what another user's summaries are,
\* computed or cached.
C29_SummariesArePerUser ==
  /\ [][(pc[1] = "d_set" /\ pc'[1] = "idle") =>
         LET mine == {r \in logs : r.user_id = last'.user /\ r.log_date = last'.day}
         IN /\ \A f \in Fields : last'.sent.total[f] = SumField(mine, f)
            /\ last'.sent.totalFoods = Cardinality(mine)]_vars
  /\ [][\A b \in Users :
          (pc[1] # "idle" /\ req[1].op \in Writes /\ req[1].user # b)
            => /\ \A d \in Days : SumsOn(logs', b, d) = SumsOn(logs, b, d)
               /\ CachedSummaries(cacheStore', b) = CachedSummaries(cacheStore, b)]_vars

\* C30: a daily summary sent for a user and date with no stored entries has
\* all seven totals 0 and totalFoods 0, whatever the cache holds, also after
\* the last entry of the date was deleted.
C30_EmptyDayReportsZero ==
  [][(/\ pc[1] \in {"idle", "d_set"} /\ pc'[1] = "idle"
      /\ last'.op = "daily" /\ last'.status = 200
      /\ ~\E r \in logs' : r.user_id = last'.user /\ r.log_date = last'.day)
     => (last'.sent.total = Zero /\ last'.sent.totalFoods = 0)]_vars

\* A GET /weekly-summary response was sent last.
WeeklySent == last.op = "weekly" /\ last.status = 200

\* C31: a weekly summary computed for a weekStart that is not a Monday reports
\* the Monday of the week containing it as the week start, sums the seven days
\* from that Monday and is cached under that Monday's key.
C31_WeekStartNormalised ==
  (WeeklySent /\ ~last.fromCache) =>
    LET monday == MondayOf(last.day)
    IN /\ last.wsent.weekStart = IsoDate(monday)
       /\ last.wsent.weekEnd = IsoDate(monday + 6)
       /\ \A x \in last.wsent.dailyData : x.day \in monday..(monday + 6)
       /\ last.key = WeeklyKey(last.user, IsoDate(monday))

\* The rows of user u on the seven days from day m.
WindowRows(rows, u, m) == {r \in rows : r.user_id = u /\ r.log_date \in m..(m + 6)}

\* The days from day m on which user u has a row.
WindowDays(rows, u, m) == {r.log_date : r \in WindowRows(rows, u, m)}

\* C32: in a weekly summary computed on a cache miss each total is the sum of
\* the window's rows, and each average is the total divided by the number of
\* days with entries (1 when there is none) and rounded; days of 1800, 2000
\* and 2200 kcal give an average of 2000.
C32_AverageOverDaysWithEntries ==
  [][(pc[1] = "w_set" /\ pc'[1] = "idle") =>
       LET w == last'.wsent
           m == ParseDate(w.weekStart)
           days == WindowDays(logs, last'.user, m)
           n == IF days = {} THEN 1 ELSE Cardinality(days)
       IN /\ {x.day : x \in w.dailyData} = days
          /\ \A x \in w.dailyData : x.total = SumsOn(logs, last'.user, x.day).total
          /\ \A f \in Fields :
               /\ w.total[f] = SumField(WindowRows(logs, last'.user, m), f)
               /\ IsRounded(w.average[f] \div Scale, w.total[f], n * Scale)
               /\ w.average[f] % Scale = 0
               /\ days = {} => w.average[f] = 0
          /\ ({x.total.calories : x \in w.dailyData} = {180000, 200000, 220000}
                /\ Cardinality(w.dailyData) = 3)
               => w.average.calories = 200000]_vars

\* A summary of three days of 1800, 2000 and 2200 kcal was computed: the
\* average is 2000 kcal.
C32_Witness ==
  /\ WeeklySent /\ ~last.fromCache
  /\ {x.total.calories : x \in last.wsent.dailyData} = {180000, 200000, 220000}
  /\ last.wsent.total.calories = 600000
  /\ last.wsent.average.calories = 200000

\* The awaits of POST /log, PUT /log/:id and DELETE /log/:id.
WritePcs == {"l_insert", "l_del", "u_update", "u_del", "x_delete", "x_del"}

\* The step is one of a write request at slot 1: it starts, continues or ends one.
WriteStep ==
  \/ pc[1] \in WritePcs
  \/ pc'[1] \in WritePcs
  \/ (pc[1] = "idle" /\ pc'[1] = "idle" /\ last'.op \in Writes)

\* C33: no step of a log, update or delete request changes a weekly cache
\* key, and a weekly summary requested while its key is cached is the cached
\* value, sent without a query to the store.
C33_WritesKeepWeeklyKeys ==
  /\ [][WriteStep =>
          /\ DOMAIN cacheStore' \cap WeeklyKeys = DOMAIN cacheStore \cap WeeklyKeys
          /\ \A k \in DOMAIN cacheStore \cap WeeklyKeys : cacheStore'[k] = cacheStore[k]]_vars
  /\ [][\A k \in DOMAIN cacheStore \cap WeeklyKeys :
          /\ ~(pc[1] = "idle" /\ pc'[1] = "w_query" /\ loc'[1].cacheKey = k)
          /\ (pc[1] = "idle" /\ pc'[1] = "idle" /\ last' # last
                /\ last'.op = "weekly" /\ last'.key = k)
               => /\ last'.fromCache /\ last'.storeReads = 0
                  /\ last'.wsent = cacheStore[k].val]_vars

\* A weekly summary was answered from the cache after entries of its week had
\* been written: its count is not the number of rows the store holds.
C33_Witness ==
  /\ WeeklySent /\ last.fromCache /\ last.storeReads = 0
  /\ last.key \in DOMAIN cacheStore
  /\ last.wsent.foodCount #
       Cardinality(WindowRows(logs, last.user, ParseDate(last.wsent.weekStart)))

\* C34: the trends array has one element for each date of the window on
\* which the user has an entry and none for other dates, in strictly ascending
\* date order, each with the sums and the count of that date's entries, and a
\* trends request leaves the cache as it is.
C34_TrendIsOrderedPerDayTotals ==
  /\ [][(pc[1] = "t_query" /\ pc'[1] = "idle") =>
          LET t == last'.trend
              u == last'.user
              on(d) == {r \in logs : r.user_id = u /\ r.log_date = d}
          IN /\ {t[i].day : i \in 1..Len(t)} = {d \in last'.window : on(d) # {}}
             /\ \A i \in 1..Len(t), j \in 1..Len(t) : i < j => t[i].day < t[j].day
             /\ \A i \in 1..Len(t) :
                  /\ t[i].foodCount = Cardinality(on(t[i].day))
                  /\ \A f \in Fields : t[i].total[f] = SumField(on(t[i].day), f)
             /\ cacheStore' = cacheStore]_vars
  /\ [][(pc[1] = "t_query" \/ pc'[1] = "t_query") => cacheStore' = cacheStore]_vars

\* Trends over three days with entries were sent while a daily summary was
\* cached: three elements, the days ascending.
C34_Witness ==
  /\ last.op = "trends" /\ last.status = 200
  /\ Len(last.trend) = 3
  /\ last.trend[1].day = 1 /\ last.trend[2].day = 2 /\ last.trend[3].day = 3
  /\ last.trend[1].total.calories = 180000 /\ last.trend[1].foodCount = 1
  /\ DOMAIN cacheStore # {}

\* The step is a call of a cache function.
CacheCallStep == last'.turn # last.turn

\* A call of cache.set, cache.get or cache.del never raises; set and del
\* return true exactly when the client answered, and then the key holds the
\* value for its time-to-live, or is gone; a failed call changes nothing and a
\* failed get returns null.
FailuresAbsorbed ==
  CacheCallStep =>
    /\ ~last'.raised
    /\ last'.op = "cache.set" =>
         /\ last'.ok = redisUp
         /\ redisUp => /\ last'.key \in DOMAIN cacheStore'
                       /\ cacheStore'[last'.key].orig = last'.value
                       /\ cacheStore'[last'.key].ttl = DailyTTL
         /\ ~redisUp => cacheStore' = cacheStore
    /\ last'.op = "cache.del" =>
         /\ last'.ok = redisUp
         /\ redisUp => last'.key \notin DOMAIN cacheStore'
         /\ ~redisUp => cacheStore' = cacheStore
    /\ last'.op = "cache.get" =>
         /\ cacheStore' = cacheStore
         /\ last'.got.found = (redisUp /\ last'.key \in DOMAIN cacheStore)

\* The value has no Date object and no number that is not finite in it.
PlainJson(value) ==
  /\ "dailyData" \in DOMAIN value => \A x \in value.dailyData : x.date.type # "Date"
  /\ "percentages" \in DOMAIN value =>
       \A f \in Fields : value.percentages[f] \notin {Infinity, NaN, 0 - Infinity}

\* The value read back is the value written, a Date object replaced by its
\* ISO string and a number that is not finite by null.
ReadBack(got, value) ==
  IF "dailyData" \in DOMAIN value
    THEN /\ [got EXCEPT !.dailyData = {}] = [value EXCEPT !.dailyData = {}]
         /\ {[x EXCEPT !.date = 0] : x \in got.dailyData}
              = {[x EXCEPT !.date = 0] : x \in value.dailyData}
         /\ \A x \in got.dailyData : x.date = [type |-> "string", day |-> x.day]
  ELSE /\ [got EXCEPT !.percentages = Zero] = [value EXCEPT !.percentages = Zero]
       /\ \A f \in Fields :
            got.percentages[f] = IF value.percentages[f] \in {Infinity, NaN, 0 - Infinity}
                                   THEN JsonNull ELSE value.percentages[f]

\* C35: every cache function absorbs failures of the client (get returns null,
\* set and del return false, nothing is raised), set and del return true on
\* success, and a get of a key that was set and has neither been deleted nor
\* expired returns the value that was set.
C35_CacheAbsorbsFailuresAndKeepsValues ==
  [][/\ FailuresAbsorbed
     /\ (CacheCallStep /\ last'.op = "cache.get" /\ last'.got.found)
          => last'.got.val = cacheStore[last'.key].orig]_vars

\* C35 as amended: the value a get returns is the value that was set as JSON
\* carries it: the same value when it holds no Date object and no number that
\* is not finite, else with each Date as its ISO string and each such number
\* as null.
C35_CacheAbsorbsFailuresAndKeepsJson ==
  [][/\ FailuresAbsorbed
     /\ (CacheCallStep /\ last'.op = "cache.get" /\ last'.got.found)
          => /\ ReadBack(last'.got.val, cacheStore[last'.key].orig)
             /\ PlainJson(cacheStore[last'.key].orig)
                  => last'.got.val = cacheStore[last'.key].orig]_vars

\* A weekly summary with three days was read back some time after it was set:
\* its dates are strings.
C35_Witness ==
  /\ last.op = "cache.get" /\ last.got.found /\ redisUp
  /\ last.key \in DOMAIN cacheStore
  /\ cacheStore[last.key].age > 0
  /\ Cardinality(last.got.val.dailyData) = 3
  /\ ~PlainJson(cacheStore[last.key].orig)
  /\ PlainJson(last.got.val)

\* C36: whichever cache calls fail, every daily and weekly summary is sent
\* with status 200 and reports what the store holds when it is sent, and
\* every log, update and delete succeeds.
C36_CacheIsNoCorrectnessDependency ==
  /\ last.op \in Reads => (last.status = 200 /\ last.fresh)
  /\ last.op \in Writes => Ok(last)

\* C38: a counter key that a check has incremented carries an expiry as soon
\* as no check is between its increment and its expire call on that key, also
\* when the expire call failed; so its window ends and its checks are admitted
\* again.
C38_CounterAlwaysExpires ==
  \A k \in DOMAIN cacheStore \cap CounterKeys :
    (\A c \in Procs : ~(rl[c].pc = "expire" /\ rl[c].key = k)) => cacheStore[k].ttl >= 0

\* C39: an update or a delete that answers with success has changed the
\* store: the update returns the row it updated, and the delete has removed
\* the entry itself, so of several deletes of one entry one succeeds.
C39_SuccessMeansMutated ==
  /\ (last.op = "update" /\ last.status = 200) => last.after.id = last.id
  /\ (last.op = "delete" /\ last.status = 200) => last.after.id = last.id

\* C40: when the response of an image upload has been sent, whatever its
\* outcome, the file that was stored for the request no longer exists.
C40_UploadRemovedAfterResponse ==
  last.op = "recognize" => last.file \notin uploads.files

====
